---------------------------- MODULE Spec2Model ----------------------------
(***************************************************************************)
(* A model of the Federal-Parliament-Scraper: the vote records of vote.py, *)
(* the topic segmenter and vote locator of meeting.py, the document        *)
(* registry and the retrying detail-page fetch of document.py, and the     *)
(* worker pool of parliament_parser.py.                                    *)
(*                                                                         *)
(* Each subsystem has a specification of its own (SpecVote, SpecFetch,     *)
(* SpecRegistry, SpecPool, SpecMeeting); the variables of the other        *)
(* subsystems stay at their idle values in it.                             *)
(***************************************************************************)
EXTENDS Integers, Sequences, FiniteSets, TLC

VARIABLES
    \* ---- vote.py: one vote object under construction and reconciliation
    vote,        \* the Vote object (a record), NoVoteObject before construction
    reported,    \* history: the tallies the vote was constructed with
    applied,     \* history: the choices whose set_*_voters has been applied
    ret,         \* the value returned by the last operation (ReturnNone when none)
    activities,  \* the activity records posted to members, in posting order
    \* ---- document.py: one entity's _initialize
    fetch,
    \* ---- meeting.py create_or_get_doc under the worker pool
    registry,
    \* ---- parliament_parser.py dump_json and its worker pool
    pool,
    \* ---- meeting.py: one meeting's get_meeting_topics
    meeting

(* What the actions of one subsystem leave alone. *)
notVote == <<fetch, registry, pool, meeting>>
notFetch == <<vote, reported, applied, ret, registry, pool, meeting>>
vars == <<vote, reported, applied, ret, activities, fetch, registry, pool, meeting>>

-----------------------------------------------------------------------------
(* Python's None where a member, a vote or a node is expected. *)
None == 0

(* A call that returns nothing. *)
ReturnNone == [none |-> TRUE]

(* common.py Choice *)
Choice == {"yes", "no", "abstention"}

(* Bounds of the vote model. *)
MaxTally == 3
MaxList == 3
MaxSub == 1

(* The tallies and the list lengths of Scenario D (reported 10, resolved 13). *)
ScenarioTallies == {10}
ScenarioLists == {13}

Tallies == (0..MaxTally) \cup ScenarioTallies
ListLens == (0..MaxList) \cup ScenarioLists
SubTallies == 0..MaxSub

Abs(x) == IF x < 0 THEN 0 - x ELSE x

(* The list of the members 1..n: one list of resolved members per length. *)
MemberList(n) == [i \in 1..n |-> i]
VoterLists == {MemberList(n) : n \in ListLens}

-----------------------------------------------------------------------------
(* vote.py *)

SubVote(y, n, a) == [yes |-> y, no |-> n, abstention |-> a]
NoSubVote == SubVote(0, 0, 0)

NoVoteObject ==
    [type |-> "none", vote_number |-> 0, yes |-> 0, no |-> 0, abstention |-> 0,
     unsure |-> FALSE, yes_voters |-> <<>>, no_voters |-> <<>>,
     abstention_voters |-> <<>>, vote_NL |-> NoSubVote, vote_FR |-> NoSubVote]

(* Vote.__init__ and GenericVote.__init__ *)
GenericVote(vote_number, y, n, a) ==
    [type |-> "general", vote_number |-> vote_number, yes |-> y, no |-> n,
     abstention |-> a, unsure |-> FALSE, yes_voters |-> <<>>, no_voters |-> <<>>,
     abstention_voters |-> <<>>, vote_NL |-> NoSubVote, vote_FR |-> NoSubVote]

(* LanguageGroupVote.__init__: the aggregate tallies are the sums. *)
LanguageGroupVote(vote_number, nl, fr) ==
    [GenericVote(vote_number, nl.yes + fr.yes, nl.no + fr.no,
                 nl.abstention + fr.abstention)
        EXCEPT !.type = "language_group", !.vote_NL = nl, !.vote_FR = fr]

(* ElectronicGenericVote.__init__ and ElectronicAdvisoryVote.__init__: the  *)
(* fields these classes do not have stay at their empty values.             *)
ElectronicGenericVote(vote_number, y, n) ==
    [GenericVote(vote_number, y, n, 0) EXCEPT !.type = "electronic_generic"]
ElectronicAdvisoryVote(vote_number, y) ==
    [GenericVote(vote_number, y, 0, 0) EXCEPT !.type = "electronic_advisory"]

(* The thresholds of the electronic votes. *)
ElectronicQuorum == 75
AdvisoryThreshold == 50

ElectronicGenericVote_has_passed_ge(v) == v.yes > v.no /\ v.yes + v.no >= ElectronicQuorum
(* ElectronicGenericVote.has_passed *)
ElectronicGenericVote_has_passed(v) == v.yes > v.no /\ v.yes + v.no > ElectronicQuorum

ElectronicAdvisoryVote_has_passed_ge(v) == v.yes >= AdvisoryThreshold
(* ElectronicAdvisoryVote.has_passed *)
ElectronicAdvisoryVote_has_passed(v) == v.yes > AdvisoryThreshold

GenericVote_has_passed_ge(v) == v.yes >= v.no + v.abstention
(* GenericVote.has_passed *)
GenericVote_has_passed(v) == v.yes > v.no + v.abstention

LanguageGroupVote_has_passed_aggregate(v) == GenericVote_has_passed(v)
(* LanguageGroupVote.has_passed: both halves, each sub-vote a GenericVote *)
LanguageGroupVote_has_passed(v) ==
    GenericVote_has_passed(v.vote_NL) /\ GenericVote_has_passed(v.vote_FR)

(* has_passed as the object's class dispatches it *)
has_passed(v) ==
    IF v.type = "language_group" THEN LanguageGroupVote_has_passed(v)
    ELSE IF v.type = "electronic_generic" THEN ElectronicGenericVote_has_passed(v)
    ELSE IF v.type = "electronic_advisory" THEN ElectronicAdvisoryVote_has_passed(v)
    ELSE GenericVote_has_passed(v)

(* GenericVote.to_dict *)
GenericVote_to_dict(v) ==
    [id |-> v.vote_number, type |-> "general", yes |-> v.yes, no |-> v.no,
     abstention |-> v.abstention, passed |-> has_passed(v),
     voters |-> [yes |-> v.yes_voters, no |-> v.no_voters,
                 abstention |-> v.abstention_voters]]

(* LanguageGroupVote.to_dict: the counts are the sums of the sub-votes *)
LanguageGroupVote_to_dict(v) ==
    [id |-> v.vote_number, type |-> "language_group",
     yes |-> v.vote_NL.yes + v.vote_FR.yes,
     no |-> v.vote_NL.no + v.vote_FR.no,
     abstention |-> v.vote_NL.abstention + v.vote_FR.abstention,
     passed |-> has_passed(v),
     voters |-> [yes |-> v.yes_voters, no |-> v.no_voters,
                 abstention |-> v.abstention_voters]]

(* ElectronicGenericVote.to_dict *)
ElectronicGenericVote_to_dict(v) ==
    [id |-> v.vote_number, type |-> "electronic_generic", yes |-> v.yes,
     no |-> v.no, passed |-> has_passed(v)]

(* ElectronicAdvisoryVote.to_dict *)
ElectronicAdvisoryVote_to_dict(v) ==
    [id |-> v.vote_number, type |-> "electronic_advisory", yes |-> v.yes,
     passed |-> has_passed(v)]

to_dict(v) ==
    IF v.type = "language_group" THEN LanguageGroupVote_to_dict(v)
    ELSE IF v.type = "electronic_generic" THEN ElectronicGenericVote_to_dict(v)
    ELSE IF v.type = "electronic_advisory" THEN ElectronicAdvisoryVote_to_dict(v)
    ELSE GenericVote_to_dict(v)

(* The index of the first None of a list, Len + 1 when it has none. *)
FirstNone(l) ==
    IF \E i \in 1..Len(l) : l[i] = None
    THEN CHOOSE i \in 1..Len(l) : l[i] = None /\ \A j \in 1..(i - 1) : l[j] # None
    ELSE Len(l) + 1

(* post_vote_activity: member.post_activity(VoteActivity(member, vote, choice)) *)
(* for each member in order; None has no post_activity (AttributeError).       *)
post_vote_activity_raises(l) == FirstNone(l) <= Len(l)

post_vote_activity(acts, vote_number, choice, l) ==
    acts \o [i \in 1..(FirstNone(l) - 1) |->
                [member |-> l[i], vote |-> vote_number, choice |-> choice]]

set_yes_voters_tol1(v, l) ==
    [v EXCEPT !.unsure = IF Abs(Len(l) - v.yes) >= 2 THEN TRUE ELSE @,
              !.yes = Len(l), !.yes_voters = l]
(* GenericVote.set_yes_voters, up to its call of post_vote_activity *)
set_yes_voters(v, l) ==
    [v EXCEPT !.unsure = IF Abs(Len(l) - v.yes) > 2 THEN TRUE ELSE @,
              !.yes = Len(l), !.yes_voters = l]

(* GenericVote.set_no_voters *)
set_no_voters(v, l) ==
    [v EXCEPT !.unsure = IF Abs(Len(l) - v.no) > 2 THEN TRUE ELSE @,
              !.no = Len(l), !.no_voters = l]

(* GenericVote.set_abstention_voters *)
set_abstention_voters(v, l) ==
    [v EXCEPT !.unsure = IF Abs(Len(l) - v.abstention) > 2 THEN TRUE ELSE @,
              !.abstention = Len(l), !.abstention_voters = l]

-----------------------------------------------------------------------------
(* The life of one vote object: construction from reported tallies, the    *)
(* three setters (each applied once, in any order, as Meeting.__get_votes  *)
(* applies them), and serialization at any time.                           *)

VoteIdle ==
    /\ vote = NoVoteObject
    /\ reported = NoSubVote
    /\ applied = {}
    /\ ret = ReturnNone
    /\ activities = <<>>

NewGenericVote ==
    /\ vote.type = "none"
    /\ \E y \in Tallies, n \in Tallies, a \in Tallies :
          /\ vote' = GenericVote(1, y, n, a)
          /\ reported' = SubVote(y, n, a)
    /\ ret' = ReturnNone
    /\ UNCHANGED <<applied, activities>>
    /\ UNCHANGED notVote

NewLanguageGroupVote ==
    /\ vote.type = "none"
    /\ \E ny \in SubTallies, nn \in SubTallies, na \in SubTallies,
          fy \in SubTallies, fn \in SubTallies, fa \in SubTallies :
          /\ vote' = LanguageGroupVote(1, SubVote(ny, nn, na), SubVote(fy, fn, fa))
          /\ reported' = SubVote(ny + fy, nn + fn, na + fa)
    /\ ret' = ReturnNone
    /\ UNCHANGED <<applied, activities>>
    /\ UNCHANGED notVote

(* The counts of the electronic votes: around the quorum of 75 and the      *)
(* advisory threshold of 50.                                                *)
ElectronicTallies == {0, 37, 38, 39, 50, 51, 75, 76}

NewElectronicGenericVote ==
    /\ vote.type = "none"
    /\ \E y \in ElectronicTallies, n \in ElectronicTallies :
          /\ vote' = ElectronicGenericVote(1, y, n)
          /\ reported' = SubVote(y, n, 0)
    /\ ret' = ReturnNone
    /\ UNCHANGED <<applied, activities>>
    /\ UNCHANGED notVote

NewElectronicAdvisoryVote ==
    /\ vote.type = "none"
    /\ \E y \in ElectronicTallies :
          /\ vote' = ElectronicAdvisoryVote(1, y)
          /\ reported' = SubVote(y, 0, 0)
    /\ ret' = ReturnNone
    /\ UNCHANGED <<applied, activities>>
    /\ UNCHANGED notVote

SetYesVoters ==
    /\ vote.type \in {"general", "language_group"}
    /\ "yes" \notin applied
    /\ \E l \in VoterLists :
          /\ vote' = set_yes_voters(vote, l)
          /\ activities' = post_vote_activity(activities, vote.vote_number, "yes", l)
    /\ applied' = applied \cup {"yes"}
    /\ ret' = ReturnNone
    /\ UNCHANGED reported
    /\ UNCHANGED notVote

SetNoVoters ==
    /\ vote.type \in {"general", "language_group"}
    /\ "no" \notin applied
    /\ \E l \in VoterLists :
          /\ vote' = set_no_voters(vote, l)
          /\ activities' = post_vote_activity(activities, vote.vote_number, "no", l)
    /\ applied' = applied \cup {"no"}
    /\ ret' = ReturnNone
    /\ UNCHANGED reported
    /\ UNCHANGED notVote

SetAbstentionVoters ==
    /\ vote.type \in {"general", "language_group"}
    /\ "abstention" \notin applied
    /\ \E l \in VoterLists :
          /\ vote' = set_abstention_voters(vote, l)
          /\ activities' =
                post_vote_activity(activities, vote.vote_number, "abstention", l)
    /\ applied' = applied \cup {"abstention"}
    /\ ret' = ReturnNone
    /\ UNCHANGED reported
    /\ UNCHANGED notVote

HasPassed ==
    /\ vote.type # "none"
    /\ ret' = [has_passed |-> has_passed(vote)]
    /\ UNCHANGED <<vote, reported, applied, activities>>
    /\ UNCHANGED notVote

ToDict ==
    /\ vote.type # "none"
    /\ ret' = [to_dict |-> to_dict(vote)]
    /\ UNCHANGED <<vote, reported, applied, activities>>
    /\ UNCHANGED notVote

-----------------------------------------------------------------------------
(* document.py: the construction of one ParliamentaryDocument or            *)
(* ParliamentaryQuestion: __init__, the recursive _initialize, registration *)
(* in the session and _register_activities.                                 *)

(* The retry depth at which _initialize gives up. *)
RetryLimit == 10

(* Bound: the authors a detail page names that resolve to members. *)
MaxAuthors == 2

EntityKinds == {"document", "question"}

(* title None before a page has set it *)
NoTitle == "None"

FetchIdle ==
    [pc |-> "idle", kind |-> "document", retry |-> 0, fetches |-> 0,
     allMarker |-> TRUE, title |-> NoTitle, authors |-> <<>>,
     document_type |-> "None", exc |-> "none"]

(* ParliamentaryDocument.__init__ / ParliamentaryQuestion.__init__ up to the *)
(* call self._initialize(): the fields start empty, retry = 0.               *)
Entity__init__(kind) == [FetchIdle EXCEPT !.pc = "fetching", !.kind = kind]

RetryExhausted_gt(retry) == retry > RetryLimit
(* if retry >= 10: print('Gave up on', ...); return *)
RetryExhausted(retry) == retry >= RetryLimit

(* One call of _initialize whose page has no content block or says the      *)
(* entity does not exist: it returns at once.                               *)
_initialize_not_found(e) ==
    [e EXCEPT !.fetches = @ + 1, !.allMarker = FALSE, !.pc = "initialized"]

(* One call of _initialize whose page carries 'Er heeft zich een fout       *)
(* voorgedaan': give up at the retry limit, else call _initialize(retry+1)  *)
(* and return when it does.                                                 *)
_initialize_marker(e) ==
    IF RetryExhausted(e.retry)
    THEN [e EXCEPT !.fetches = @ + 1, !.pc = "initialized"]
    ELSE [e EXCEPT !.fetches = @ + 1, !.retry = @ + 1]

(* One call of _initialize on a real page. A document page without a        *)
(* 'Document type' row raises IndexError at doc_type_row[0], after the      *)
(* title has been set; a question page parses without that row.             *)
_initialize_page(e, hasTitle, hasDocType, nAuthors) ==
    LET titled == [e EXCEPT !.fetches = @ + 1, !.allMarker = FALSE,
                            !.title = IF hasTitle THEN "T" ELSE @]
    IN  IF e.kind = "document" /\ ~hasDocType
        THEN [titled EXCEPT !.pc = "raised", !.exc = "IndexError"]
        ELSE [titled EXCEPT !.pc = "initialized",
                            !.authors = MemberList(nAuthors),
                            !.document_type =
                                IF e.kind = "document" THEN "D" ELSE @]

NewEntity ==
    /\ fetch.pc = "idle"
    /\ \E kind \in EntityKinds : fetch' = Entity__init__(kind)
    /\ UNCHANGED activities
    /\ UNCHANGED notFetch

FetchNotFound ==
    /\ fetch.pc = "fetching"
    /\ fetch' = _initialize_not_found(fetch)
    /\ UNCHANGED activities
    /\ UNCHANGED notFetch

FetchMarker ==
    /\ fetch.pc = "fetching"
    /\ fetch' = _initialize_marker(fetch)
    /\ UNCHANGED activities
    /\ UNCHANGED notFetch

FetchPage ==
    /\ fetch.pc = "fetching"
    /\ \E hasTitle \in BOOLEAN, hasDocType \in BOOLEAN, n \in 0..MaxAuthors :
          fetch' = _initialize_page(fetch, hasTitle, hasDocType, n)
    /\ UNCHANGED activities
    /\ UNCHANGED notFetch

(* The rest of __init__: session.documents[number] = self (or questions),   *)
(* then _register_activities posts one activity per author.                 *)
RegisterEntity ==
    /\ fetch.pc = "initialized"
    /\ fetch' = [fetch EXCEPT !.pc = "registered"]
    /\ activities' = activities \o
          [i \in 1..Len(fetch.authors) |->
              [member |-> fetch.authors[i], vote |-> 0, choice |-> fetch.kind]]
    /\ UNCHANGED notFetch

-----------------------------------------------------------------------------
(* meeting.py create_or_get_doc / create_or_get_question called by the      *)
(* threads of the pool of ParliamentarySession.dump_json on the one shared  *)
(* session. No lock is taken anywhere: a thread can be descheduled between  *)
(* the membership test, the fetch of the constructor and the registration.  *)

(* Bounds: the pool threads, the entity numbers, the requests per thread. *)
NWorkers == 2
MaxNumber == 2
MaxRequests == 2

Workers == 1..NWorkers
Numbers == 1..MaxNumber

WorkerIdle == [pc |-> "idle", kind |-> "document", number |-> 0, entity |-> None,
               got |-> None, requests |-> 0]

(* session.documents and session.questions: number -> entity, None if absent; *)
(* made: the entities constructed so far, an entity's id its index.           *)
RegistryIdle ==
    [documents |-> [n \in Numbers |-> None],
     questions |-> [n \in Numbers |-> None],
     made |-> <<>>,
     worker |-> [w \in Workers |-> WorkerIdle]]

(* session.documents or session.questions *)
RegistryOf(r, kind) == IF kind = "document" THEN r.documents ELSE r.questions

(* number not in session.documents *)
NotRegistered(r, kind, number) == RegistryOf(r, kind)[number] = None

(* self.session.documents[document_number] = self *)
Registered(r, kind, number, entity) ==
    IF kind = "document"
    THEN [r EXCEPT !.documents[number] = entity]
    ELSE [r EXCEPT !.questions[number] = entity]

(* A thread reaches a call create_or_get_doc(session, number). *)
RequestEntity(w) ==
    /\ registry.worker[w].pc \in {"idle", "done"}
    /\ registry.worker[w].requests < MaxRequests
    /\ \E kind \in EntityKinds, n \in Numbers :
          registry' = [registry EXCEPT !.worker[w] =
              [pc |-> "check", kind |-> kind, number |-> n, entity |-> None,
               got |-> None, requests |-> @.requests + 1]]
    /\ UNCHANGED <<vote, reported, applied, ret, activities, fetch, pool, meeting>>

(* The conditional expression found the number registered: return it. *)
GetExisting(w) ==
    LET t == registry.worker[w] IN
    /\ t.pc = "check"
    /\ ~NotRegistered(registry, t.kind, t.number)
    /\ registry' = [registry EXCEPT
          !.worker[w].pc = "done",
          !.worker[w].got = RegistryOf(registry, t.kind)[t.number]]
    /\ UNCHANGED <<vote, reported, applied, ret, activities, fetch, pool, meeting>>

(* The number is not registered: ParliamentaryDocument(session, number) is  *)
(* constructed, and its __init__ goes off to fetch the detail page.         *)
ConstructEntity(w) ==
    LET t == registry.worker[w] IN
    /\ t.pc = "check"
    /\ NotRegistered(registry, t.kind, t.number)
    /\ registry' = [registry EXCEPT
          !.made = Append(@, [kind |-> t.kind, number |-> t.number]),
          !.worker[w].pc = "init",
          !.worker[w].entity = Len(registry.made) + 1]
    /\ UNCHANGED <<vote, reported, applied, ret, activities, fetch, pool, meeting>>

(* _initialize has returned: the entity registers itself, whatever is       *)
(* registered under its number by now, and the constructor returns it.      *)
RegisterAndReturn(w) ==
    LET t == registry.worker[w] IN
    /\ t.pc = "init"
    /\ registry' = [Registered(registry, t.kind, t.number, t.entity) EXCEPT
          !.worker[w].pc = "done",
          !.worker[w].got = t.entity]
    /\ UNCHANGED <<vote, reported, applied, ret, activities, fetch, pool, meeting>>

-----------------------------------------------------------------------------
(* parliament_parser.py ParliamentarySession.dump_json: the meetings are    *)
(* mapped over a ThreadPoolExecutor and the results collected in order with *)
(* list(executor.map(...)); then the members, then the session files.       *)

(* ThreadPoolExecutor(max_workers=10) *)
PoolMaxWorkers == 10

(* Bound: the plenary meetings of the session. *)
NMeetings == 3

Meetings == 1..NMeetings

(* fails: the meetings whose dump_json (its get_meeting_topics) raises;     *)
(* task: each meeting's future; uris: the results collected so far.         *)
PoolIdle ==
    [pc |-> "idle", fails |-> {}, task |-> [m \in Meetings |-> "pending"],
     uris |-> <<>>, result |-> "none"]

Running(pl) == {m \in Meetings : pl.task[m] = "running"}

(* dump_json up to executor.map: every meeting is submitted. *)
SubmitMeetings ==
    /\ pool.pc = "idle"
    /\ \E fails \in SUBSET Meetings :
          pool' = [pool EXCEPT !.pc = "collect", !.fails = fails]
    /\ UNCHANGED <<vote, reported, applied, ret, activities, fetch, registry, meeting>>

(* A pool thread takes a pending meeting, at most max_workers at a time. *)
StartMeeting(m) ==
    /\ pool.pc \in {"collect", "shutdown"}
    /\ pool.task[m] = "pending"
    /\ Cardinality(Running(pool)) < PoolMaxWorkers
    /\ pool' = [pool EXCEPT !.task[m] = "running"]
    /\ UNCHANGED <<vote, reported, applied, ret, activities, fetch, registry, meeting>>

(* meeting_to_URI returns the meeting's URI, or its exception is stored in  *)
(* the future.                                                              *)
FinishMeeting(m) ==
    /\ pool.task[m] = "running"
    /\ pool' = [pool EXCEPT !.task[m] = IF m \in pool.fails THEN "raised" ELSE "done"]
    /\ UNCHANGED <<vote, reported, applied, ret, activities, fetch, registry, meeting>>

(* list(...) takes the next result in submission order: a URI is appended;  *)
(* a stored exception is raised again in the main thread, and the iterator  *)
(* cancels the futures that have not started.                               *)
CollectResult ==
    LET m == Len(pool.uris) + 1 IN
    /\ pool.pc = "collect"
    /\ m \in Meetings
    /\ pool.task[m] \in {"done", "raised"}
    /\ pool' = IF pool.task[m] = "done"
               THEN [pool EXCEPT !.uris = Append(@, m)]
               ELSE [pool EXCEPT !.pc = "shutdown",
                                 !.task = [k \in Meetings |->
                                     IF pool.task[k] = "pending" THEN "cancelled"
                                     ELSE pool.task[k]]]
    /\ UNCHANGED <<vote, reported, applied, ret, activities, fetch, registry, meeting>>

(* The with block ends on the exception: shutdown(wait=True) waits for the  *)
(* running meetings, then the exception leaves dump_json.                   *)
PoolRaise ==
    /\ pool.pc = "shutdown"
    /\ Running(pool) = {}
    /\ pool' = [pool EXCEPT !.pc = "raised", !.result = "exception"]
    /\ UNCHANGED <<vote, reported, applied, ret, activities, fetch, registry, meeting>>

(* Every meeting's URI is collected: the members are mapped, the files are  *)
(* written and the session's URI is returned.                               *)
PoolReturn ==
    /\ pool.pc = "collect"
    /\ Len(pool.uris) = NMeetings
    /\ pool' = [pool EXCEPT !.pc = "returned", !.result = "session.json"]
    /\ UNCHANGED <<vote, reported, applied, ret, activities, fetch, registry, meeting>>

-----------------------------------------------------------------------------
(* meeting.py: the document of one meeting.                                 *)
(*                                                                          *)
(* The body is the sequence of sibling nodes that hold the title and        *)
(* section paragraphs and the vote tables; Section3 is the sequence of the  *)
(* vote detail blocks (name lists, electronic counts) at the document's end.*)
(* A text is kept as clean_string leaves it, split where the code splits    *)
(* it: num is the leading "<digits> " of the text (NoNum when it has none)  *)
(* and txt is what follows it (the whole text when there is no number).     *)

(* No leading number; also the None that extract_title_by_vote returns. *)
NoNum == -1

Language == {"NL", "FR"}

(* Meeting.language_mapping: <<section class, title class>> *)
language_mapping(language) ==
    IF language = "NL" THEN <<"Titre1NL", "Titre2NL">> ELSE <<"Titre1FR", "Titre2FR">>

NoTable == [cells |-> <<>>]

(* A paragraph of the body. vote is the number of a 'Stemming/vote N'      *)
(* marker inside the node, 0 when it holds none.                            *)
Paragraph(cls, num, txt, v) ==
    [tag |-> "p", cls |-> cls, num |-> num, txt |-> txt, vote |-> v,
     table |-> NoTable]

(* A vote table of the body: cells holds, for each tr without a height in  *)
(* document order, the texts of its td cells in order.                      *)
Table(v, cells) ==
    [tag |-> "table", cls |-> "", num |-> NoNum, txt |-> "", vote |-> v,
     table |-> [cells |-> cells]]

(* The match of the item-number pattern on the cleaned text of the item. *)
Numbered(node) == node.num # NoNum

(* not cleaned_item_text or cleaned_item_text[0] == '<' *)
EmptyOrComment(node) == node.num = NoNum /\ node.txt \in {"", "<"}

RECURSIVE SelectIndices(_, _, _, _)
(* soup.find_all('p', {'class': cls}): the indices, in document order *)
SelectIndices(body, cls, i, acc) ==
    IF i > Len(body) THEN acc
    ELSE SelectIndices(body, cls, i + 1,
            IF body[i].tag = "p" /\ body[i].cls = cls THEN Append(acc, i) ELSE acc)

find_all_p(body, cls) == SelectIndices(body, cls, 1, <<>>)

RECURSIVE find_previous_sibling_p(_, _, _)
(* node.find_previous_sibling("p", {"class": cls}): its index, 0 for None *)
find_previous_sibling_p(body, i, cls) ==
    IF i <= 1 THEN 0
    ELSE IF body[i - 1].tag = "p" /\ body[i - 1].cls = cls THEN i - 1
    ELSE find_previous_sibling_p(body, i - 1, cls)

Front(seq) == SubSeq(seq, 1, Len(seq) - 1)
Last(seq) == seq[Len(seq)]

RECURSIVE rstrip(_)
(* str.rstrip() of a text kept as its lines: the trailing empty lines go. *)
rstrip(lines) ==
    IF Len(lines) > 1 /\ Last(lines) = "" THEN rstrip(Front(lines)) ELSE lines

-----------------------------------------------------------------------------
(* The words the classifier and the linker look for in a text. *)

(* str.lower() on the texts of the model; a text without capitals is its *)
(* own lower case.                                                         *)
lower(text) ==
    CASE text = "Begroting" -> "begroting"
      [] text = "BEGROTING EN VRAGEN" -> "begroting en vragen"
      [] text = "Naamstemmingen over de begroting" -> "naamstemmingen over de begroting"
      [] text = "Wetsontwerp houdende de Begroting" -> "wetsontwerp houdende de begroting"
      [] text = "Actualiteitsdebat" -> "actualiteitsdebat"
      [] text = "Naamstemmingen" -> "naamstemmingen"
      [] text = "Geheime stemming" -> "geheime stemming"
      [] text = "Geheime agenda" -> "geheime agenda"
      [] text = "Mondelinge vragen" -> "mondelinge vragen"
      [] text = "Interpellaties" -> "interpellaties"
      [] text = "Herziening van de Grondwet" -> "herziening van de grondwet"
      [] text = "Herziening" -> "herziening"
      [] text = "Wetsontwerpen" -> "wetsontwerpen"
      [] text = "Wetsvoorstellen" -> "wetsvoorstellen"
      [] text = "Wetsontwerpen en voorstellen" -> "wetsontwerpen en voorstellen"
      [] text = "Algemeen" -> "algemeen"
      [] text = "Wetsontwerp (1234/5)" -> "wetsontwerp (1234/5)"
      [] text = "Wetsontwerp (5678/1)" -> "wetsontwerp (5678/1)"
      [] text = "Wetsontwerp (1234)" -> "wetsontwerp (1234)"
      [] text = "Ontwerp (1234/5) en (5678/1)" -> "ontwerp (1234/5) en (5678/1)"
      [] text = "Wetsvoorstel (1234/5)" -> "wetsvoorstel (1234/5)"
      [] text = "Vraag (55001234C)" -> "vraag (55001234c)"
      [] text = "Vraag (nr P0123)" -> "vraag (nr p0123)"
      [] text = "Vraag van m1" -> "vraag van m1"
      [] text = "Regeling van de werkzaamheden" -> "regeling van de werkzaamheden"
      [] text = "Projet de loi (1234/5)" -> "projet de loi (1234/5)"
      [] text = "Question de m1" -> "question de m1"
      [] text = "Projets et propositions" -> "projets et propositions"
      [] text = "Generale" -> "generale"
      [] text = "(Stemming/vote 1)" -> "(stemming/vote 1)"
      [] text = "Nee" -> "nee"
      [] text = "Onthoudingen" -> "onthoudingen"
      [] text = "Abstentions" -> "abstentions"
      [] text = "Naamstemming 2" -> "naamstemming 2"
      [] OTHER -> text

(* The keywords the code looks for that a text contains as substrings, letter *)
(* case respected ('ontwerp' is in 'Wetsontwerp', 'vraag' is not in 'Vraag'). *)
Keywords(text) ==
    CASE text = "begroting" -> {"begroting"}
      [] text = "begroting en vragen" -> {"begroting", "vragen"}
      [] text = "Naamstemmingen over de begroting" -> {"begroting", "stemming"}
      [] text = "naamstemmingen over de begroting" -> {"begroting", "naamstemming", "stemming"}
      [] text = "Wetsontwerp houdende de Begroting" -> {"ontwerp"}
      [] text = "wetsontwerp houdende de begroting" -> {"begroting", "ontwerp"}
      [] text = "actualiteitsdebat" -> {"actualiteitsdebat"}
      [] text = "Naamstemmingen" -> {"stemming"}
      [] text = "naamstemmingen" -> {"naamstemming", "stemming"}
      [] text = "Geheime stemming" -> {"stemming"}
      [] text = "geheime stemming" -> {"geheim", "stemming"}
      [] text = "geheime agenda" -> {"geheim"}
      [] text = "Mondelinge vragen" -> {"vragen"}
      [] text = "mondelinge vragen" -> {"vragen"}
      [] text = "interpellaties" -> {"interpellatie"}
      [] text = "herziening van de grondwet" -> {"herziening", "grondwet"}
      [] text = "herziening" -> {"herziening"}
      [] text = "Wetsontwerpen" -> {"ontwerp"}
      [] text = "wetsontwerpen" -> {"ontwerp"}
      [] text = "Wetsvoorstellen" -> {"voorstel"}
      [] text = "wetsvoorstellen" -> {"voorstel"}
      [] text = "Wetsontwerpen en voorstellen" -> {"ontwerp", "voorstel"}
      [] text = "wetsontwerpen en voorstellen" -> {"ontwerp", "voorstel"}
      [] text = "Wetsontwerp (1234/5)" -> {"ontwerp"}
      [] text = "wetsontwerp (1234/5)" -> {"ontwerp"}
      [] text = "Wetsontwerp (5678/1)" -> {"ontwerp"}
      [] text = "wetsontwerp (5678/1)" -> {"ontwerp"}
      [] text = "Wetsontwerp (1234)" -> {"ontwerp"}
      [] text = "wetsontwerp (1234)" -> {"ontwerp"}
      [] text = "ontwerp (1234/5) en (5678/1)" -> {"ontwerp"}
      [] text = "Wetsvoorstel (1234/5)" -> {"voorstel"}
      [] text = "wetsvoorstel (1234/5)" -> {"voorstel"}
      [] text = "vraag (55001234c)" -> {"vraag"}
      [] text = "vraag (nr p0123)" -> {"vraag"}
      [] text = "vraag van m1" -> {"vraag"}
      [] text = "(stemming/vote 1)" -> {"stemming"}
      [] text = "onthoudingen" -> {"onthoudingen"}
      [] text = "abstentions" -> {"abstentions"}
      [] text = "Naamstemming 2" -> {"stemming"}
      [] text = "naamstemming 2" -> {"naamstemming", "stemming"}
      [] OTHER -> {}

(* No match of a pattern on a line. *)
NoMatch == ""

(* The bill-reference pattern matched on a title line: the number before   *)
(* the slash of the last parenthesised reference, NoMatch for no match.     *)
BillNumber(line) ==
    CASE line = "Wetsontwerp (1234/5)" -> "1234"
      [] line = "Wetsontwerp (5678/1)" -> "5678"
      [] line = "Ontwerp (1234/5) en (5678/1)" -> "5678"
      [] line = "Wetsvoorstel (1234/5)" -> "1234"
      [] line = "Projet de loi (1234/5)" -> "1234"
      [] OTHER -> NoMatch

(* The question patterns matched on a title line: the number of the new    *)
(* format, else the session followed by the number of the old format, else  *)
(* NoMatch (the session is 55).                                              *)
QuestionNumber(line) ==
    CASE line = "Vraag (55001234C)" -> "55001234C"
      [] line = "Vraag (nr P0123)" -> "55P0123"
      [] OTHER -> NoMatch

(* The members whose normalized name the line contains. *)
Mentioned(line) == IF line = "Vraag van m1" THEN {1} ELSE {}

LinesHave(lines, kw) == \E i \in 1..Len(lines) : kw \in Keywords(lines[i])

(* title_NL.lower() of a title kept as its lines *)
lower_lines(lines) == [i \in 1..Len(lines) |-> lower(lines[i])]

(* TopicType *)
TopicType ==
    {"GENERAL", "CURRENT_AFFAIRS", "BUDGET", "SECRET_VOTE", "REVISION_OF_CONSTITUTION",
     "INTERPELLATION", "NAME_VOTE", "DRAFT_BILL", "BILL_PROPOSAL", "LEGISLATION",
     "QUESTIONS"}

Classify_interpellation_first(title_NL, section_NL) ==
    LET sec(kw) == kw \in Keywords(section_NL)
        tit(kw) == LinesHave(title_NL, kw)
    IN  IF sec("begroting") THEN "BUDGET"
        ELSE IF sec("actualiteitsdebat") THEN "CURRENT_AFFAIRS"
        ELSE IF sec("naamstemming") THEN "NAME_VOTE"
        ELSE IF sec("geheim") /\ sec("stemming") THEN "SECRET_VOTE"
        ELSE IF sec("interpellatie") THEN "INTERPELLATION"
        ELSE IF sec("vragen") \/ tit("vragen") \/ tit("vraag") THEN "QUESTIONS"
        ELSE IF sec("herziening") /\ sec("grondwet") THEN "REVISION_OF_CONSTITUTION"
        ELSE IF sec("ontwerp") \/ sec("voorstel")
             THEN IF ~sec("ontwerp") \/ tit("voorstel") THEN "BILL_PROPOSAL"
                  ELSE IF ~sec("voorstel") \/ tit("ontwerp") THEN "DRAFT_BILL"
                  ELSE "GENERAL"
        ELSE "GENERAL"
(* The chain of tests of from_section_and_title on the lowered texts. *)
Classify(title_NL, section_NL) ==
    LET sec(kw) == kw \in Keywords(section_NL)
        tit(kw) == LinesHave(title_NL, kw)
    IN  IF sec("begroting") THEN "BUDGET"
        ELSE IF sec("actualiteitsdebat") THEN "CURRENT_AFFAIRS"
        ELSE IF sec("naamstemming") THEN "NAME_VOTE"
        ELSE IF sec("geheim") /\ sec("stemming") THEN "SECRET_VOTE"
        ELSE IF sec("vragen") \/ tit("vragen") \/ tit("vraag") THEN "QUESTIONS"
        ELSE IF sec("interpellatie") THEN "INTERPELLATION"
        ELSE IF sec("herziening") /\ sec("grondwet") THEN "REVISION_OF_CONSTITUTION"
        ELSE IF sec("ontwerp") \/ sec("voorstel")
             THEN IF ~sec("ontwerp") \/ tit("voorstel") THEN "BILL_PROPOSAL"
                  ELSE IF ~sec("voorstel") \/ tit("ontwerp") THEN "DRAFT_BILL"
                  ELSE "GENERAL"
        ELSE "GENERAL"

from_section_and_title_case_sensitive(title_NL, section_NL) ==
    Classify(title_NL, section_NL)
(* TopicType.from_section_and_title: both texts are lowered first *)
from_section_and_title(title_NL, section_NL) ==
    Classify(lower_lines(title_NL), lower(section_NL))

-----------------------------------------------------------------------------
(* MeetingTopic *)

(* title_NL = None, and the section attributes __init__ never sets *)
NoLines == <<>>
Unset == "unset"

MeetingTopic_item_last(item, last_item_id) == last_item_id
(* MeetingTopic.__init__: self.item = item *)
MeetingTopic_item(item, last_item_id) == item

MeetingTopic(item, last_item_id) ==
    [item |-> MeetingTopic_item(item, last_item_id),
     topic_type |-> "GENERAL", votes |-> <<>>,
     related_documents |-> <<>>, related_questions |-> <<>>,
     title_NL |-> NoLines, title_FR |-> NoLines,
     section_NL |-> Unset, section_FR |-> Unset]

(* MeetingTopic.set_title *)
set_title(topic, language, title) ==
    IF language = "NL" THEN [topic EXCEPT !.title_NL = title]
    ELSE [topic EXCEPT !.title_FR = title]

(* MeetingTopic.set_section *)
set_section(topic, language, section_name) ==
    IF language = "NL" THEN [topic EXCEPT !.section_NL = section_name]
    ELSE [topic EXCEPT !.section_FR = section_name]

RECURSIVE NumbersOf(_, _, _)
NumbersOf(lines, i, which) ==
    IF i > Len(lines) THEN <<>>
    ELSE LET n == IF which = "bill" THEN BillNumber(lines[i])
                  ELSE QuestionNumber(lines[i])
         IN  (IF n # NoMatch THEN <<n>> ELSE <<>>) \o NumbersOf(lines, i + 1, which)

(* complete_type() raises AttributeError when title_NL is None or          *)
(* section_NL was never set: the topic was first committed by the FR pass. *)
complete_type_raises(topic) == topic.section_NL = Unset \/ topic.title_NL = NoLines

DocumentTypes == {"BILL_PROPOSAL", "DRAFT_BILL", "LEGISLATION", "NAME_VOTE", "SECRET_VOTE"}

(* MeetingTopic.complete_type(): the type, then the related entities, each  *)
(* got or created by its number (an entity is known by its number here).    *)
complete_type_appending(topic) ==
    LET type == from_section_and_title(topic.title_NL, topic.section_NL)
        typed == [topic EXCEPT !.topic_type = type]
    IN  IF type \in DocumentTypes
        THEN [typed EXCEPT !.related_documents = @ \o NumbersOf(topic.title_NL, 1, "bill")]
        ELSE IF type = "QUESTIONS"
        THEN [typed EXCEPT !.related_questions =
                               @ \o NumbersOf(topic.title_NL, 1, "question")]
        ELSE typed
complete_type(topic) ==
    LET type == from_section_and_title(topic.title_NL, topic.section_NL)
        typed == [topic EXCEPT !.topic_type = type]
    IN  IF type \in DocumentTypes
        THEN [typed EXCEPT !.related_documents = NumbersOf(topic.title_NL, 1, "bill")]
        ELSE IF type = "QUESTIONS"
        THEN [typed EXCEPT !.related_questions =
                               NumbersOf(topic.title_NL, 1, "question")]
        ELSE typed

(* MeetingTopic.add_vote *)
add_vote(topic, v) == [topic EXCEPT !.votes = Append(@, v)]

-----------------------------------------------------------------------------
(* Meeting.get_meeting_topics: parse_topics *)

RECURSIVE MergeTitles(_, _, _, _, _)
(* The inner while loop of parse_topics from the paragraph item on: the    *)
(* paragraph the loop ends at, what is left of titles, current_title, and   *)
(* the IndexError of find_previous_siblings()[0] or of titles.pop().        *)
MergeTitles(body, cls, titles, item, current_title) ==
    IF Numbered(body[item])
    THEN [item |-> item, titles |-> titles, current_title |-> current_title,
          exc |-> "none"]
    ELSE LET merged == <<body[item].txt>> \o current_title IN
         IF item = 1
         THEN [item |-> item, titles |-> titles, current_title |-> merged,
               exc |-> "IndexError"]
         ELSE IF body[item - 1].cls # cls
         THEN [item |-> item, titles |-> titles, current_title |-> merged,
               exc |-> "none"]
         ELSE IF titles = <<>>
         THEN [item |-> item, titles |-> titles, current_title |-> merged,
               exc |-> "IndexError"]
         ELSE MergeTitles(body, cls, Front(titles), Last(titles), merged)

(* The default section label of a language *)
DefaultSection(language) == IF language = "NL" THEN "Algemeen" ELSE "Generale"

synthesized_item_id_same(item, last_item_id) ==
    IF Numbered(item) THEN item.num ELSE last_item_id
(* item_id of parse_topics: the number of the line, or the counter plus one *)
synthesized_item_id(item, last_item_id) ==
    IF Numbered(item) THEN item.num ELSE last_item_id + 1

(* One pass of the outer while loop of parse_topics(language) over the     *)
(* meeting record m, whose titles is not empty.                             *)
parse_topics_step(m, language) ==
    LET classes == language_mapping(language)
        body == m.soup.body
        first == Last(m.titles)
        popped == Front(m.titles)
    IN  IF EmptyOrComment(body[first])
        THEN [m EXCEPT !.titles = popped]
        ELSE
        LET run == MergeTitles(body, classes[2], popped, first, m.current_title)
            item == body[run.item]
            current_title == IF Numbered(item) THEN <<item.txt>> \o run.current_title
                             ELSE <<item.txt>>
            item_id == synthesized_item_id(item, m.last_item_id)
            section == find_previous_sibling_p(body, run.item, classes[1])
            section_name == IF section # 0 THEN body[section].txt
                            ELSE DefaultSection(language)
            old == IF item_id \in DOMAIN m.topics THEN m.topics[item_id]
                   ELSE MeetingTopic(item_id, m.last_item_id)
            set == set_section(set_title(old, language, rstrip(current_title)),
                               language, section_name)
            raises == complete_type_raises(set)
            done == IF raises THEN set ELSE complete_type(set)
            named == IF language = "NL" /\ ~raises
                     THEN UNION {Mentioned(set.title_NL[i]) :
                                    i \in 1..Len(set.title_NL)}
                     ELSE {}
        IN  IF run.exc # "none"
            THEN [m EXCEPT !.titles = run.titles, !.pc = "raised", !.exc = run.exc,
                          !.where = "find_previous_siblings",
                          !.current_title = run.current_title]
            ELSE [m EXCEPT
                    !.titles = run.titles,
                    !.last_item_id = item_id,
                    !.current_title = <<"">>,
                    !.runs = Append(@, [item_id |-> item_id, item |-> run.item,
                                        first |-> first,
                                        merged |-> run.current_title]),
                    !.topics = [k \in DOMAIN m.topics \cup {item_id} |->
                                   IF k = item_id THEN done ELSE m.topics[k]],
                    !.documents = @ \cup {done.related_documents[i] :
                                             i \in 1..Len(done.related_documents)},
                    !.questions = @ \cup {done.related_questions[i] :
                                             i \in 1..Len(done.related_questions)},
                    !.named = @ \cup {<<mb, item_id>> : mb \in named},
                    !.pc = IF raises THEN "raised" ELSE @,
                    !.exc = IF raises THEN "AttributeError" ELSE @,
                    !.where = IF raises THEN "complete_type" ELSE @]

-----------------------------------------------------------------------------
(* Meeting.__get_votes: the vote detail blocks of Section3 *)

(* util.py clean_string on the cell texts and the name texts of the model: *)
(* the white space around a text goes.                                      *)
clean_string(text) ==
    CASE text = " 88" -> "88"
      [] text = " " -> ""
      [] text = " afwezig" -> "afwezig"
      [] text = " m2" -> "m2"
      [] OTHER -> text

(* str.split(',') on the texts of the model *)
split(text) ==
    CASE text = "m1, m2" -> <<"m1", " m2">>
      [] text = "m1, , m2" -> <<"m1", " ", " m2">>
      [] text = "m2, afwezig" -> <<"m2", " afwezig">>
      [] OTHER -> <<text>>

(* util.py banned_set, as far as the name lists of the model go *)
CommentText == "<![if !supportEmptyParas]> <![endif]>"
banned_set == {" afwezig", CommentText}

(* util.py is_string_banned_or_empty *)
is_string_banned_or_empty(string) == string = "" \/ string \in banned_set

(* util.py clean_list: the items that are not empty or banned, each cleaned *)
clean_list(list) ==
    LET kept == SelectSeq(list, LAMBDA item : ~is_string_banned_or_empty(item))
    IN  [i \in 1..Len(kept) |-> clean_string(kept[i])]

(* ParliamentarySession.find_member: the member of a name, None for a name *)
(* no member has (the function then ends without a return).                 *)
find_member(query) ==
    CASE query = "m1" -> 1
      [] query = "m2" -> 2
      [] OTHER -> None

find_members(names) == [i \in 1..Len(names) |-> find_member(names[i])]

(* A 'Naamstemming' block: num is the first number of its header (NoNum    *)
(* when it has none), phrase the text between the header and the table,     *)
(* yes, no and abstention the comma separated items of the three lists.     *)
NameBlock(num, phrase, yes, no, abstention) ==
    [kind |-> "name", num |-> num, phrase |-> phrase, yes |-> yes, no |-> no,
     abstention |-> abstention, cell |-> "", after |-> <<>>, cell2 |-> ""]

(* An 'Elektronische telling' block: cell is the text of td[1] of its      *)
(* table, after the tags of the siblings that follow that table, cell2 the  *)
(* text of td[1] of the second of them.                                     *)
ElectronicBlock(num, phrase, cell, after, cell2) ==
    [kind |-> "electronic", num |-> num, phrase |-> phrase, yes |-> <<>>,
     no |-> <<>>, abstention |-> <<>>, cell |-> cell, after |-> after,
     cell2 |-> cell2]

(* extract_vote_number_from_tag: the header's first number, else default *)
extract_vote_number_from_tag(block, default) ==
    IF block.num # NoNum THEN block.num ELSE default

(* is_vote_cancelled: a cancellation phrase before the block's table *)
is_vote_cancelled(block) == block.phrase \in {"annulé", "42.5"}

RECURSIVE BlocksOf(_, _, _)
BlocksOf(s3, kind, i) ==
    IF i > Len(s3) THEN <<>>
    ELSE (IF s3[i].kind = kind THEN <<s3[i]>> ELSE <<>>) \o BlocksOf(s3, kind, i + 1)

RECURSIVE CollectVotes(_, _, _)
(* The two for loops of get_name_and_electronic_votes over the tags of one *)
(* kind: vote number -> the block's lists (the block itself for electronic  *)
(* votes), a later block of the same number replacing an earlier one, a     *)
(* cancelled block leaving no entry.                                        *)
CollectVotes(tags, i, acc) ==
    IF i > Len(tags) THEN acc
    ELSE LET vote_number == extract_vote_number_from_tag(tags[i], i - 1)
             entry == [tags[i] EXCEPT !.yes = clean_list(@), !.no = clean_list(@),
                                      !.abstention = clean_list(@)]
         IN  IF is_vote_cancelled(tags[i]) THEN CollectVotes(tags, i + 1, acc)
             ELSE CollectVotes(tags, i + 1,
                     [n \in DOMAIN acc \cup {vote_number} |->
                         IF n = vote_number THEN entry ELSE acc[n]])

EmptyDict == [n \in {} |-> 0]

(* get_name_and_electronic_votes *)
get_name_and_electronic_votes(s3) ==
    [name_votes |-> CollectVotes(BlocksOf(s3, "name", 1), 1, EmptyDict),
     electronic_votes |-> CollectVotes(BlocksOf(s3, "electronic", 1), 1, EmptyDict)]

RECURSIVE VoteTags(_, _)
(* soup.find_all(text='Stemming/vote N'): the nodes that hold a marker *)
VoteTags(body, i) ==
    IF i > Len(body) THEN <<>>
    ELSE (IF body[i].vote # 0 THEN <<i>> ELSE <<>>) \o VoteTags(body, i + 1)

-----------------------------------------------------------------------------
(* Meeting.__get_votes: from a marker to a vote *)

RECURSIVE NumberedTitleFrom(_, _, _)
(* The while loop of extract_title_by_vote from the paragraph next_line *)
NumberedTitleFrom(body, next_line, cls) ==
    IF Numbered(body[next_line]) THEN body[next_line].num
    ELSE LET previous == find_previous_sibling_p(body, next_line, cls) IN
         IF previous = 0 THEN NoNum ELSE NumberedTitleFrom(body, previous, cls)

(* extract_title_by_vote: raises AttributeError (None.text) when no title  *)
(* paragraph of the language precedes the table; val is NoNum for None      *)
extract_title_by_vote(body, table, language) ==
    LET cls == language_mapping(language)[2]
        next_line == find_previous_sibling_p(body, table, cls)
    IN  IF next_line = 0 THEN [val |-> NoNum, exc |-> "AttributeError"]
        ELSE [val |-> NumberedTitleFrom(body, next_line, cls), exc |-> "none"]

(* The texts int() accepts, and the integer it gives. *)
IsIntText(text) == text \in {"0", "1", "2", "3", "10", "42", "60", "80", "88"}
int(text) ==
    CASE text = "0" -> 0 [] text = "1" -> 1 [] text = "2" -> 2 [] text = "3" -> 3
      [] text = "10" -> 10 [] text = "42" -> 42 [] text = "60" -> 60
      [] text = "80" -> 80 [] text = "88" -> 88

(* vote_rows[r].find_all('td')[c]: the cell's text, when the row has it *)
HasCell(t, r, c) == r + 1 <= Len(t.cells) /\ c + 1 <= Len(t.cells[r + 1])
Cell(t, r, c) == t.cells[r + 1][c + 1]

(* What a from_table returns or raises. *)
Made(v) == [vote |-> v, exc |-> "none"]
Raised(exc) == [vote |-> NoVoteObject, exc |-> exc]

(* GenericVote.from_table reading the rows r, r + 1, r + 2 at cell c *)
GenericVote_from_table_at(vote_number, t, r, c) ==
    LET yes_str == clean_string(Cell(t, r, c))
        no_str == clean_string(Cell(t, r + 1, c))
        abstention_str == clean_string(Cell(t, r + 2, c))
    IN  IF ~HasCell(t, r, c) THEN Raised("IndexError")
        ELSE IF yes_str = "" THEN Made(NoVoteObject)
        ELSE IF ~IsIntText(yes_str) THEN Raised("ValueError")
        ELSE IF ~HasCell(t, r + 1, c) THEN Raised("IndexError")
        ELSE IF ~IsIntText(no_str) THEN Raised("ValueError")
        ELSE IF ~HasCell(t, r + 2, c) THEN Raised("IndexError")
        ELSE IF ~IsIntText(abstention_str) THEN Raised("ValueError")
        ELSE Made(GenericVote(vote_number, int(yes_str), int(no_str),
                              int(abstention_str)))

GenericVote_from_table_shifted(vote_number, t) ==
    GenericVote_from_table_at(vote_number, t, 0, 1)
(* GenericVote.from_table: rows 1, 2 and 3, cell 1 *)
GenericVote_from_table(vote_number, t) ==
    GenericVote_from_table_at(vote_number, t, 1, 1)

(* LanguageGroupVote.from_table: rows 2, 3 and 4, cell 1 (FR) and 3 (NL) *)
LanguageGroupVote_from_table(vote_number, t) ==
    LET text(r, c) == clean_string(Cell(t, r, c))
        read == {<<r, c>> : r \in {2, 3, 4}, c \in {1, 3}}
    IN  IF \E rc \in read : ~HasCell(t, rc[1], rc[2]) THEN Raised("IndexError")
        ELSE IF \E rc \in read : is_string_banned_or_empty(text(rc[1], rc[2]))
        THEN Made(NoVoteObject)
        ELSE IF \E rc \in read : ~IsIntText(text(rc[1], rc[2])) THEN Raised("ValueError")
        ELSE Made(LanguageGroupVote(vote_number,
                     SubVote(int(text(2, 3)), int(text(3, 3)), int(text(4, 3))),
                     SubVote(int(text(2, 1)), int(text(3, 1)), int(text(4, 1)))))

(* rows[-1].get_text().strip(): its first text that is not blank, "" for a *)
(* blank row.                                                               *)
last_row_text(t) ==
    LET texts == SelectSeq(Last(t.cells), LAMBDA text : clean_string(text) # "")
    IN  IF texts = <<>> THEN "" ELSE clean_string(texts[1])

(* last_row_text[0] == '<' *)
StartsWithComment(text) == text \in {"<", CommentText}

rows_shape_by_count(t) ==
    LET n == Len(t.cells)
    IN  IF n > 6 THEN "none"
        ELSE IF n = 0 THEN "IndexError"
        ELSE IF n = 5 THEN "generic"
        ELSE IF n = 6 THEN "language_group"
        ELSE "none"
(* The tests of __get_votes on the rows of a roll-call table: which         *)
(* from_table is called, none, or the IndexError of rows[-1].               *)
rows_shape(t) ==
    LET n == Len(t.cells)
    IN  IF n > 6 THEN "none"
        ELSE IF n = 0 THEN "IndexError"
        ELSE IF n = 5 \/ (n = 6 /\ (last_row_text(t) = ""
                                    \/ StartsWithComment(last_row_text(t))))
        THEN "generic"
        ELSE IF n = 6 THEN "language_group"
        ELSE "none"

(* The vote __get_votes makes of the rows of a roll-call table. *)
vote_from_rows(vote_number, t) ==
    CASE rows_shape(t) = "generic" -> GenericVote_from_table(vote_number, t)
      [] rows_shape(t) = "language_group" -> LanguageGroupVote_from_table(vote_number, t)
      [] rows_shape(t) = "IndexError" -> Raised("IndexError")
      [] OTHER -> Made(NoVoteObject)

(* electronic_vote_from_table: vote_end_node is the second sibling after    *)
(* the first table; the first sibling being None raises AttributeError.     *)
electronic_vote_from_table(vote_number, block) ==
    LET yes_str == clean_string(block.cell)
        no_str == clean_string(block.cell2)
    IN  IF ~IsIntText(yes_str) THEN Raised("ValueError")
        ELSE IF Len(block.after) = 0 THEN Raised("AttributeError")
        ELSE IF Len(block.after) < 2 \/ block.after[2] # "table"
        THEN Made(ElectronicAdvisoryVote(vote_number, int(yes_str)))
        ELSE IF ~IsIntText(no_str) THEN Raised("ValueError")
        ELSE Made(ElectronicGenericVote(vote_number, int(yes_str), int(no_str)))

(* The three setter calls of __get_votes with the members find_member      *)
(* gives for the names, None included: the vote, the activities and the     *)
(* AttributeError of the first setter that meets a None.                    *)
SetVoters(v, acts, names) ==
    LET yes == find_members(names.yes)
        no == find_members(names.no)
        abstention == find_members(names.abstention)
        v1 == set_yes_voters(v, yes)
        a1 == post_vote_activity(acts, v.vote_number, "yes", yes)
        v2 == set_no_voters(v1, no)
        a2 == post_vote_activity(a1, v.vote_number, "no", no)
        v3 == set_abstention_voters(v2, abstention)
        a3 == post_vote_activity(a2, v.vote_number, "abstention", abstention)
    IN  IF post_vote_activity_raises(yes)
        THEN [vote |-> v1, activities |-> a1, exc |-> "AttributeError"]
        ELSE IF post_vote_activity_raises(no)
        THEN [vote |-> v2, activities |-> a2, exc |-> "AttributeError"]
        ELSE IF post_vote_activity_raises(abstention)
        THEN [vote |-> v3, activities |-> a3, exc |-> "AttributeError"]
        ELSE [vote |-> v3, activities |-> a3, exc |-> "none"]

(* What one pass of the for loop of __get_votes does. *)
Skip(m, acts) == [meeting |-> m, activities |-> acts]
Raise(m, acts, exc, where) ==
    [meeting |-> [m EXCEPT !.pc = "raised", !.exc = exc, !.where = where],
     activities |-> acts]
Attach_by_vote_number(m, acts, agenda_item, v) ==
    LET key == v.vote_number
        topic == IF key \in DOMAIN m.topics THEN m.topics[key]
                 ELSE MeetingTopic(key, key)
    IN  [meeting |-> [m EXCEPT !.topics =
                        [k \in DOMAIN @ \cup {key} |->
                            IF k = key THEN add_vote(topic, v) ELSE @[k]]],
         activities |-> acts]
(* self.topics[agenda_item].add_vote(vote) *)
Attach(m, acts, agenda_item, v) ==
    [meeting |-> [m EXCEPT !.topics[agenda_item] = add_vote(@, v)],
     activities |-> acts]

(* The body of the for loop of __get_votes for the marker in node tag. *)
get_votes_step(m, acts, tag) ==
    LET body == m.soup.body
        node == body[tag]
        vote_number == node.vote
        is_electronic_vote == vote_number \in DOMAIN m.electronic_votes
        fr == extract_title_by_vote(body, tag, "FR")
        nl == extract_title_by_vote(body, tag, "NL")
        agenda_item == fr.val
        t == node.table
        shape == rows_shape(t)
        made == vote_from_rows(vote_number, t)
        voted == SetVoters(made.vote, acts, m.name_votes[vote_number])
        electronic == electronic_vote_from_table(vote_number,
                                                 m.electronic_votes[vote_number])
    IN  IF is_electronic_vote /\ node.tag # "p"
        THEN Raise(m, acts, "AttributeError", "enclosing paragraph")
        ELSE IF ~is_electronic_vote /\ node.tag # "table" THEN Skip(m, acts)
        ELSE IF fr.exc # "none" THEN Raise(m, acts, fr.exc, "extract_title_by_vote")
        ELSE IF nl.exc # "none" THEN Raise(m, acts, nl.exc, "extract_title_by_vote")
        ELSE IF nl.val # agenda_item THEN Raise(m, acts, "AssertionError", "assert")
        ELSE IF agenda_item = NoNum \/ agenda_item = 0 THEN Skip(m, acts)
        ELSE IF ~is_electronic_vote /\ Len(t.cells) <= 6
        THEN IF shape = "IndexError" THEN Raise(m, acts, "IndexError", "rows")
             ELSE IF shape = "none" THEN Skip(m, acts)
             ELSE IF agenda_item \notin DOMAIN m.topics
             THEN Raise(m, acts, "KeyError", "topics")
             ELSE IF made.exc # "none" THEN Raise(m, acts, made.exc, "from_table")
             ELSE IF made.vote.type = "none" THEN Skip(m, acts)
             ELSE IF vote_number \notin DOMAIN m.name_votes
             THEN Attach(m, acts, agenda_item, made.vote)
             ELSE IF voted.exc # "none"
             THEN Raise(m, voted.activities, voted.exc, "post_vote_activity")
             ELSE Attach(m, voted.activities, agenda_item, voted.vote)
        ELSE IF is_electronic_vote
        THEN IF agenda_item \notin DOMAIN m.topics
             THEN Raise(m, acts, "KeyError", "topics")
             ELSE IF electronic.exc # "none"
             THEN Raise(m, acts, electronic.exc, "electronic_vote_from_table")
             ELSE Attach(m, acts, agenda_item, electronic.vote)
        ELSE Skip(m, acts)

-----------------------------------------------------------------------------
(* Idle values of the subsystems a specification does not exercise. *)
MeetingIdle == [pc |-> "idle"]

-----------------------------------------------------------------------------
(* Meeting.get_meeting_topics on one document: the Dutch pass, the French   *)
(* pass, then __get_votes. An exception of any step leaves                  *)
(* get_meeting_topics (pc "raised") with the topics made so far.            *)

(* The most calls of get_meeting_topics on one meeting. *)
MaxCalls == 2

(* Meeting.__init__ with the page the meeting's URL serves. The locals of   *)
(* parse_topics are kept in the record: titles, last_item_id and            *)
(* current_title; runs is the history of the pass, one entry per pass of    *)
(* its loop that stored a topic: the item_id, the paragraph item, the first *)
(* paragraph popped and current_title as the merging loop left it. calls    *)
(* counts the calls of get_meeting_topics, refresh is the argument of the   *)
(* last one and returned the maps the calls have returned, in order.        *)
Meeting(soup) ==
    [pc |-> "new", soup |-> soup, topics |-> EmptyDict, titles |-> <<>>,
     last_item_id |-> 1, name_votes |-> EmptyDict, electronic_votes |-> EmptyDict,
     tags |-> <<>>, exc |-> "none", where |-> "", at |-> 0,
     documents |-> {}, questions |-> {}, named |-> {},
     current_title |-> <<"">>, runs |-> <<>>,
     calls |-> 0, refresh |-> FALSE, returned |-> <<>>]

begin_parse_keeping_topics(m) ==
    [m EXCEPT
       !.pc = "NL",
       !.titles = find_all_p(m.soup.body, language_mapping("NL")[2]),
       !.current_title = <<"">>,
       !.last_item_id = 1,
       !.runs = <<>>,
       !.exc = "none", !.where = "", !.at = 0]
(* get_meeting_topics when it parses: self.topics = {} and the locals of    *)
(* parse_topics(Language.NL) before its loop.                               *)
begin_parse(m) ==
    [m EXCEPT
       !.pc = "NL",
       !.topics = EmptyDict,
       !.titles = find_all_p(m.soup.body, language_mapping("NL")[2]),
       !.current_title = <<"">>,
       !.last_item_id = 1,
       !.runs = <<>>,
       !.exc = "none", !.where = "", !.at = 0]

(* get_meeting_topics up to the first pass of the loop of                   *)
(* parse_topics(Language.NL): topics is empty, so the page is parsed.       *)
StartGetMeetingTopics ==
    /\ meeting.pc = "new"
    /\ meeting' = [begin_parse(meeting) EXCEPT !.calls = 1]
    /\ UNCHANGED <<vote, reported, applied, ret, activities, fetch, registry, pool>>

(* One pass of the while loop of parse_topics. *)
ParseTopic ==
    /\ meeting.pc \in Language
    /\ meeting.titles # <<>>
    /\ meeting' = parse_topics_step(meeting, meeting.pc)
    /\ UNCHANGED <<vote, reported, applied, ret, activities, fetch, registry, pool>>

(* parse_topics(Language.NL) returns and parse_topics(Language.FR) begins. *)
StartFrenchPass ==
    /\ meeting.pc = "NL"
    /\ meeting.titles = <<>>
    /\ meeting' = [meeting EXCEPT
                     !.pc = "FR",
                     !.titles = find_all_p(meeting.soup.body, language_mapping("FR")[2]),
                     !.current_title = <<"">>,
                     !.last_item_id = 1,
                     !.runs = <<>>]
    /\ UNCHANGED <<vote, reported, applied, ret, activities, fetch, registry, pool>>

(* parse_topics(Language.FR) returns; __get_votes up to its for loop. *)
GetNameAndElectronicVotes ==
    /\ meeting.pc = "FR"
    /\ meeting.titles = <<>>
    /\ LET found == get_name_and_electronic_votes(meeting.soup.s3) IN
          meeting' = [meeting EXCEPT
                        !.pc = "votes",
                        !.name_votes = found.name_votes,
                        !.electronic_votes = found.electronic_votes,
                        !.tags = VoteTags(meeting.soup.body, 1)]
    /\ UNCHANGED <<vote, reported, applied, ret, activities, fetch, registry, pool>>

(* One pass of the for loop of __get_votes. *)
ProcessVoteTag ==
    /\ meeting.pc = "votes"
    /\ meeting.tags # <<>>
    /\ LET tag == Head(meeting.tags)
           after == get_votes_step([meeting EXCEPT !.tags = Tail(@), !.at = tag],
                                   activities, tag)
       IN  /\ meeting' = after.meeting
           /\ activities' = after.activities
    /\ UNCHANGED <<vote, reported, applied, ret, fetch, registry, pool>>

(* __get_votes ends and get_meeting_topics returns self.topics. *)
ReturnTopics ==
    /\ meeting.pc = "votes"
    /\ meeting.tags = <<>>
    /\ meeting' = [meeting EXCEPT !.pc = "done", !.returned = Append(@, meeting.topics)]
    /\ UNCHANGED <<vote, reported, applied, ret, activities, fetch, registry, pool>>

(* A later call get_meeting_topics(refresh) on the meeting, after a call   *)
(* has returned or raised: it parses again when refresh is set or topics   *)
(* is empty, and returns self.topics as it is otherwise.                    *)
GetMeetingTopicsAgain ==
    /\ meeting.pc \in {"done", "raised"}
    /\ meeting.calls < MaxCalls
    /\ \E refresh \in BOOLEAN :
         meeting' =
            IF refresh \/ meeting.topics = EmptyDict
            THEN [begin_parse(meeting) EXCEPT !.calls = @ + 1, !.refresh = refresh]
            ELSE [meeting EXCEPT !.pc = "done", !.calls = @ + 1,
                                 !.refresh = refresh, !.exc = "none", !.where = "",
                                 !.returned = Append(@, meeting.topics)]
    /\ UNCHANGED <<vote, reported, applied, ret, activities, fetch, registry, pool>>

InitVote ==
    /\ VoteIdle
    /\ fetch = FetchIdle
    /\ registry = RegistryIdle
    /\ pool = PoolIdle
    /\ meeting = MeetingIdle

NextVote ==
    \/ NewGenericVote
    \/ NewLanguageGroupVote
    \/ NewElectronicGenericVote
    \/ NewElectronicAdvisoryVote
    \/ SetYesVoters
    \/ SetNoVoters
    \/ SetAbstentionVoters
    \/ HasPassed
    \/ ToDict

SpecVote == InitVote /\ [][NextVote]_vars

-----------------------------------------------------------------------------
(* Claims about the vote records, checked under SpecVote. *)

VoterList(v, c) ==
    IF c = "yes" THEN v.yes_voters
    ELSE IF c = "no" THEN v.no_voters ELSE v.abstention_voters

Count(v, c) ==
    IF c = "yes" THEN v.yes ELSE IF c = "no" THEN v.no ELSE v.abstention

Exceeds(c) == Abs(Count(reported, c) - Len(VoterList(vote, c))) > 2

(* C2: once a setter has been applied for a choice the stored count of that   *)
(* choice is the length of its voter list, and unsure is true exactly when    *)
(* for some applied choice the count reported before the call and the list    *)
(* length differ by more than 2 (a difference of 2 leaves it false; reported  *)
(* yes 10 against a list of 13 gives yes = 13 and unsure).                    *)
C2_CountsFollowLists ==
    /\ \A c \in applied : Count(vote, c) = Len(VoterList(vote, c))
    /\ vote.unsure <=> (\E c \in applied : Exceeds(c))
    /\ (/\ "yes" \in applied
        /\ reported.yes = 10
        /\ Len(vote.yes_voters) = 13) => (vote.yes = 13 /\ vote.unsure)

(* C2 witness: all three setters applied to a GenericVote reported with 10    *)
(* yes votes and given 13 yes voters, the other two lists off by exactly 2.   *)
C2_Witness ==
    /\ vote.type = "general"
    /\ applied = Choice
    /\ reported.yes = 10
    /\ vote.yes = 13
    /\ vote.unsure
    /\ Abs(reported.no - vote.no) = 2
    /\ Abs(reported.abstention - vote.abstention) = 2

(* C9: has_passed() of a GenericVote returns true exactly when                *)
(* yes > no + abstention on the counts stored at the call; a tie fails.       *)
C9_GenericPassed ==
    (vote.type = "general" /\ "has_passed" \in DOMAIN ret)
        => (ret.has_passed <=> vote.yes > vote.no + vote.abstention)

(* C9 witness: a tie with voter lists attached, reported as not passed. *)
C9_Witness ==
    /\ vote.type = "general"
    /\ "has_passed" \in DOMAIN ret
    /\ applied = Choice
    /\ vote.yes > 0
    /\ vote.yes = vote.no + vote.abstention
    /\ ~ret.has_passed

(* C10: has_passed() of a LanguageGroupVote returns true exactly when the NL  *)
(* sub-vote and the FR sub-vote each have yes > no + abstention.              *)
C10_LanguageGroupPassed ==
    (vote.type = "language_group" /\ "has_passed" \in DOMAIN ret)
        => (ret.has_passed <=>
               /\ vote.vote_NL.yes > vote.vote_NL.no + vote.vote_NL.abstention
               /\ vote.vote_FR.yes > vote.vote_FR.no + vote.vote_FR.abstention)

(* C10 witness: an aggregate majority with the FR group failing: not passed. *)
C10_Witness ==
    /\ vote.type = "language_group"
    /\ "has_passed" \in DOMAIN ret
    /\ vote.yes > vote.no + vote.abstention
    /\ vote.vote_NL.yes > vote.vote_NL.no + vote.vote_NL.abstention
    /\ ~(vote.vote_FR.yes > vote.vote_FR.no + vote.vote_FR.abstention)
    /\ ~ret.has_passed

(* C11: has_passed() of an ElectronicGenericVote returns true exactly when  *)
(* yes > no and yes + no > 75; with yes + no = 75, or yes = no, it is false. *)
C11_ElectronicGenericPassed ==
    (vote.type = "electronic_generic" /\ "has_passed" \in DOMAIN ret)
        => /\ ret.has_passed <=> (vote.yes > vote.no /\ vote.yes + vote.no > 75)
           /\ (vote.yes + vote.no = 75 \/ vote.yes = vote.no) => ~ret.has_passed

(* has_passed() has answered false for a vote of 38 against 37: yes wins,   *)
(* the sum is exactly 75.                                                   *)
C11_Witness ==
    /\ vote.type = "electronic_generic"
    /\ "has_passed" \in DOMAIN ret
    /\ vote.yes = 38 /\ vote.no = 37
    /\ ~ret.has_passed

-----------------------------------------------------------------------------
InitFetch ==
    /\ VoteIdle
    /\ fetch = FetchIdle
    /\ registry = RegistryIdle
    /\ pool = PoolIdle
    /\ meeting = MeetingIdle

NextFetch ==
    \/ NewEntity
    \/ FetchNotFound
    \/ FetchMarker
    \/ FetchPage
    \/ RegisterEntity

SpecFetch == InitFetch /\ [][NextFetch]_vars

OnlyMarkers == fetch.pc # "idle" /\ fetch.allMarker

EmptyFields ==
    /\ fetch.title = NoTitle
    /\ fetch.authors = <<>>
    /\ fetch.exc = "none"

(* C6 as stated: with the error marker on every page, _initialize ends      *)
(* without raising after at most 10 fetches and the fields stay empty.      *)
C6_AtMostTenFetches ==
    OnlyMarkers =>
        /\ fetch.fetches <= 10
        /\ fetch.pc # "raised"
        /\ EmptyFields

(* C6 amended: with the error marker on every page, _initialize ends        *)
(* without raising after at most 11 fetches (the first and 10 retries): the *)
(* 11th marker ends it, and the entity keeps its empty initial fields.      *)
C6_AtMostElevenFetches ==
    OnlyMarkers =>
        /\ fetch.fetches <= 11
        /\ fetch.fetches = 11 => fetch.pc \in {"initialized", "registered"}
        /\ fetch.pc # "raised"
        /\ EmptyFields

(* C6 witness: 11 consecutive marker pages, given up, registered empty. *)
C6_Witness ==
    /\ OnlyMarkers
    /\ fetch.fetches = 11
    /\ fetch.pc = "registered"
    /\ EmptyFields
    /\ activities = <<>>

-----------------------------------------------------------------------------
InitRegistry ==
    /\ VoteIdle
    /\ fetch = FetchIdle
    /\ registry = RegistryIdle
    /\ pool = PoolIdle
    /\ meeting = MeetingIdle

NextRegistry ==
    \E w \in Workers :
        \/ RequestEntity(w)
        \/ GetExisting(w)
        \/ ConstructEntity(w)
        \/ RegisterAndReturn(w)

SpecRegistry == InitRegistry /\ [][NextRegistry]_vars

(* The entities constructed for one number of one registry. *)
MadeFor(kind, n) ==
    {i \in 1..Len(registry.made) :
        registry.made[i] = [kind |-> kind, number |-> n]}

(* C3: over every interleaving of the pool threads at most one entity is    *)
(* constructed for a number of session.documents (session.questions), and   *)
(* every requester of that number obtains the same entity.                  *)
C3_AtomicGetOrCreate ==
    \A kind \in EntityKinds, n \in Numbers :
        /\ Cardinality(MadeFor(kind, n)) <= 1
        /\ \A w1 \in Workers, w2 \in Workers :
              (/\ registry.worker[w1].pc = "done"
               /\ registry.worker[w2].pc = "done"
               /\ registry.worker[w1].kind = kind
               /\ registry.worker[w2].kind = kind
               /\ registry.worker[w1].number = n
               /\ registry.worker[w2].number = n)
              => registry.worker[w1].got = registry.worker[w2].got

-----------------------------------------------------------------------------
InitPool ==
    /\ VoteIdle
    /\ fetch = FetchIdle
    /\ registry = RegistryIdle
    /\ pool = PoolIdle
    /\ meeting = MeetingIdle

NextPool ==
    \/ SubmitMeetings
    \/ \E m \in Meetings : StartMeeting(m)
    \/ \E m \in Meetings : FinishMeeting(m)
    \/ CollectResult
    \/ PoolRaise
    \/ PoolReturn

SpecPool == InitPool /\ [][NextPool]_vars

(* C8: when a meeting's extraction raises inside the pool,                  *)
(* ParliamentarySession.dump_json still completes: it returns, with the     *)
(* results of the other meetings.                                           *)
C8_PartialResult ==
    (pool.pc \in {"returned", "raised"} /\ pool.fails # {})
        => /\ pool.pc = "returned"
           /\ \A m \in Meetings \ pool.fails :
                 \E i \in 1..Len(pool.uris) : pool.uris[i] = m

-----------------------------------------------------------------------------
(* SpecMeeting: get_meeting_topics on every document of two families: the  *)
(* title documents (numbered, unnumbered, empty and comment title           *)
(* paragraphs of both languages, section paragraphs, other paragraphs) and  *)
(* the vote documents (numbered titles, vote tables, a marker paragraph,    *)
(* each with one of the Section3 contents).                                 *)

(* Bounds: the nodes of a title document and of a vote document. *)
MaxTitles == 4
MaxVoteNodes == 4

BoundedSeq(S, n) == UNION {[1..k -> S] : k \in 0..n}

NL1 == Paragraph("Titre2NL", 1, "Wetsontwerp (1234/5)", 0)
NL2 == Paragraph("Titre2NL", 2, "Vraag (55001234C)", 0)
FR1 == Paragraph("Titre2FR", 1, "Projet de loi (1234/5)", 0)

TitleNodes ==
    {NL1, NL2, FR1,
     Paragraph("Titre2NL", NoNum, "Vraag van m1", 0),
     Paragraph("Titre2NL", NoNum, "Wetsontwerp (5678/1)", 0),
     Paragraph("Titre2NL", NoNum, "", 0),
     Paragraph("Titre2NL", NoNum, "<", 0),
     Paragraph("Titre2FR", NoNum, "Question de m1", 0),
     Paragraph("Titre1NL", NoNum, "Wetsontwerpen en voorstellen", 0),
     Paragraph("Titre1FR", NoNum, "Projets et propositions", 0)}

(* Vote 1: a table of 5 rows (yes 2, no 1, abstention 0); the same with an *)
(* empty yes cell; vote 2: a table of 6 rows, FR in cell 1 and NL in cell 3  *)
(* of the rows 2, 3 and 4; a marker of vote 1 inside a paragraph.           *)
TableG ==
    Table(1, <<<<"", "">>, <<"Ja", "2">>, <<"Nee", "1">>, <<"Onthoudingen", "0">>,
               <<"Totaal", "3">>>>)
TableEmpty ==
    Table(1, <<<<"", "">>, <<"Ja", "">>, <<"Nee", "">>, <<"Onthoudingen", "">>,
               <<"Totaal", "">>>>)
TableL ==
    Table(2, <<<<"", "", "", "">>, <<"", "F", "", "N">>, <<"Ja", "1", "Oui", "1">>,
               <<"Nee", "0", "Non", "1">>, <<"Onthoudingen", "0", "Abstentions", "0">>,
               <<"Totaal", "1", "Total", "2">>>>)
MarkerParagraph == Paragraph("Normal", NoNum, "(Stemming/vote 1)", 1)

VoteNodes == {NL1, NL2, FR1, TableG, TableEmpty, TableL, MarkerParagraph}

Section3s ==
    {<<>>,
     <<NameBlock(1, "", <<"m1", "", " afwezig", "m2">>, <<>>, <<>>)>>,
     <<NameBlock(1, "", <<"m1", "x">>, <<"m2">>, <<>>)>>,
     <<NameBlock(1, "annulé", <<"m1", "m2">>, <<>>, <<>>)>>,
     <<NameBlock(1, "42.5", <<"m1">>, <<"m2">>, <<>>)>>,
     <<NameBlock(NoNum, "", <<"m1">>, <<>>, <<>>),
       NameBlock(NoNum, "", <<"m2">>, <<>>, <<"m1">>)>>,
     <<ElectronicBlock(1, "", "80", <<"p", "table">>, "10")>>,
     <<ElectronicBlock(1, "", "60", <<"p">>, "")>>}

TitleDocs == {[body |-> b, s3 |-> <<>>] : b \in BoundedSeq(TitleNodes, MaxTitles)}
VoteDocs ==
    {[body |-> b, s3 |-> s] : b \in BoundedSeq(VoteNodes, MaxVoteNodes), s \in Section3s}

InitMeeting ==
    /\ VoteIdle
    /\ fetch = FetchIdle
    /\ registry = RegistryIdle
    /\ pool = PoolIdle
    /\ \E soup \in TitleDocs \cup VoteDocs : meeting = Meeting(soup)

NextMeeting ==
    \/ StartGetMeetingTopics
    \/ ParseTopic
    \/ StartFrenchPass
    \/ GetNameAndElectronicVotes
    \/ ProcessVoteTag
    \/ ReturnTopics

SpecMeeting == InitMeeting /\ [][NextMeeting]_vars

(* The votes attached to the topics: <<agenda item, position>> *)
AttachedVotes ==
    {<<k, j>> : k \in DOMAIN meeting.topics, j \in 1..MaxVoteNodes}
        \cap {kj \in (DOMAIN meeting.topics) \X (1..MaxVoteNodes) :
                 kj[2] <= Len(meeting.topics[kj[1]].votes)}

(* C1: every topic stored in Meeting.topics sits under the key equal to its *)
(* own item number, at every point of get_meeting_topics and whatever the   *)
(* sequence of numbered, unnumbered and continuation title paragraphs of    *)
(* both languages.                                                          *)
C1_TopicsKeyedByItem ==
    \A k \in DOMAIN meeting.topics : meeting.topics[k].item = k

(* get_meeting_topics has returned two topics or more, one of them with a   *)
(* title merged from a continuation paragraph, one with a French title.     *)
C1_Witness ==
    /\ meeting.pc = "done"
    /\ Cardinality(DOMAIN meeting.topics) >= 2
    /\ \E k \in DOMAIN meeting.topics : Len(meeting.topics[k].title_NL) >= 2
    /\ \E k \in DOMAIN meeting.topics : meeting.topics[k].title_FR # NoLines

(* The documents the bill references of a title's lines name, line by line *)
ExpectedDocuments(lines) ==
    LET refs == SelectSeq(lines, LAMBDA line : BillNumber(line) # NoMatch)
    IN  [i \in 1..Len(refs) |-> BillNumber(refs[i])]

(* complete_type has run on the topic: both Dutch texts were set before. *)
Completed(topic) == topic.title_NL # NoLines /\ topic.section_NL # Unset

(* C15: a topic classified DRAFT_BILL, BILL_PROPOSAL, LEGISLATION,          *)
(* NAME_VOTE or SECRET_VOTE holds, after complete_type has run (once or     *)
(* once per language pass), exactly one related document per line of its    *)
(* Dutch title that carries a bill reference, numbered by the reference and *)
(* known to the session; one line '(1234/5)' gives exactly document '1234'. *)
C15_OneDocumentPerBillLine ==
    \A k \in DOMAIN meeting.topics :
        LET topic == meeting.topics[k] IN
        (Completed(topic) /\ topic.topic_type \in DocumentTypes) =>
            /\ topic.related_documents = ExpectedDocuments(topic.title_NL)
            /\ \A i \in 1..Len(topic.related_documents) :
                  topic.related_documents[i] \in meeting.documents
            /\ topic.title_NL = <<"Wetsontwerp (1234/5)">>
                  => topic.related_documents = <<"1234">>

(* get_meeting_topics has returned a DRAFT_BILL topic titled                *)
(* 'Wetsontwerp (1234/5)' that both language passes completed, with the one *)
(* related document '1234'.                                                 *)
C15_Witness ==
    /\ meeting.pc = "done"
    /\ \E k \in DOMAIN meeting.topics :
          /\ meeting.topics[k].topic_type = "DRAFT_BILL"
          /\ meeting.topics[k].title_NL = <<"Wetsontwerp (1234/5)">>
          /\ meeting.topics[k].title_FR # NoLines
          /\ meeting.topics[k].related_documents = <<"1234">>

(* C4: no Vote object is attached to any topic under the number of a vote   *)
(* whose Section3 header block carries a cancellation phrase.               *)
C4_CancelledVoteOmitted ==
    \A i \in 1..Len(meeting.soup.s3) :
        LET block == meeting.soup.s3[i] IN
        (block.num # NoNum /\ is_vote_cancelled(block)) =>
            \A kj \in AttachedVotes :
                meeting.topics[kj[1]].votes[kj[2]].vote_number # block.num

(* The French and the Dutch title paragraphs before the node give           *)
(* different agenda-item numbers.                                           *)
BilingualMismatch(body, tag) ==
    LET fr == extract_title_by_vote(body, tag, "FR")
        nl == extract_title_by_vote(body, tag, "NL")
    IN  fr.exc = "none" /\ nl.exc = "none" /\ fr.val # nl.val

(* C5: a vote whose French and Dutch agenda-item numbers differ is skipped  *)
(* and nothing else: get_meeting_topics does not end in the exception of    *)
(* that vote's cross-check.                                                 *)
C5_MismatchSkipsOnlyThatVote ==
    ~(/\ meeting.pc = "raised"
      /\ meeting.where = "assert"
      /\ BilingualMismatch(meeting.soup.body, meeting.at))

(* A name of the lists that find_member resolves to no member. *)
HasUnresolvedName(names) ==
    \E l \in {names.yes, names.no, names.abstention} :
        \E i \in 1..Len(l) : find_member(l[i]) = None

(* C7: a name that matches no member is dropped and vote extraction goes    *)
(* on: get_meeting_topics does not end in an exception raised while the     *)
(* voters of a vote with such a name are set.                               *)
C7_UnresolvedNameDropped ==
    ~(/\ meeting.pc = "raised"
      /\ meeting.where = "post_vote_activity"
      /\ HasUnresolvedName(meeting.name_votes[meeting.soup.body[meeting.at].vote]))

-----------------------------------------------------------------------------
(* SpecClassify: TopicType.from_section_and_title applied to every pair of  *)
(* a title and a section text of the sets below.                            *)

ClassifierSections ==
    {"Begroting", "BEGROTING EN VRAGEN", "Naamstemmingen over de begroting",
     "Wetsontwerp houdende de Begroting", "Actualiteitsdebat", "Naamstemmingen",
     "Geheime stemming", "Geheime agenda", "Mondelinge vragen", "Interpellaties",
     "Herziening van de Grondwet", "Herziening", "Wetsontwerpen", "Wetsvoorstellen",
     "Wetsontwerpen en voorstellen", "Algemeen", ""}

ClassifierTitles ==
    {<<"Wetsontwerp (1234/5)">>, <<"Wetsvoorstel (1234/5)">>, <<"Vraag (55001234C)">>,
     <<"Mondelinge vragen">>, <<"Regeling van de werkzaamheden">>,
     <<"Wetsontwerp (1234/5)", "Wetsvoorstel (1234/5)">>,
     <<"Regeling van de werkzaamheden", "Vraag van m1">>, <<"">>}

(* One call of TopicType.from_section_and_title(title_NL, section_NL). *)
ClassifyTopic ==
    /\ \E title_NL \in ClassifierTitles, section_NL \in ClassifierSections :
          ret' = [title_NL |-> title_NL, section_NL |-> section_NL,
                  topic_type |-> from_section_and_title(title_NL, section_NL)]
    /\ UNCHANGED <<vote, reported, applied, activities>>
    /\ UNCHANGED notVote

InitClassify ==
    /\ VoteIdle
    /\ fetch = FetchIdle
    /\ registry = RegistryIdle
    /\ pool = PoolIdle
    /\ meeting = MeetingIdle

NextClassify == ClassifyTopic

SpecClassify == InitClassify /\ [][NextClassify]_vars

(* C14: whenever the section text contains 'begroting' in any letter case,  *)
(* the classifier returns BUDGET, whatever the title and whatever the other *)
(* keywords of the section.                                                 *)
C14_BegrotingIsBudget ==
    ("topic_type" \in DOMAIN ret /\ "begroting" \in Keywords(lower(ret.section_NL)))
        => ret.topic_type = "BUDGET"

(* The classifier has answered BUDGET for a section in capitals that also   *)
(* names questions, under a title that names a question.                    *)
C14_Witness ==
    /\ "topic_type" \in DOMAIN ret
    /\ ret.section_NL = "BEGROTING EN VRAGEN"
    /\ ret.title_NL = <<"Vraag (55001234C)">>
    /\ ret.topic_type = "BUDGET"

(* The ordered rules of the classifier as a list of <<condition, type>>,   *)
(* on the keywords of the lowered section and the lowered title lines;      *)
(* questions are the keywords that make a title one of questions.           *)
OrderedRules(title_NL, section_NL, questions) ==
    LET S == Keywords(lower(section_NL))
        T == UNION {Keywords(lower(title_NL[i])) : i \in 1..Len(title_NL)}
    IN  << <<"begroting" \in S, "BUDGET">>,
           <<"actualiteitsdebat" \in S, "CURRENT_AFFAIRS">>,
           <<"naamstemming" \in S, "NAME_VOTE">>,
           <<{"geheim", "stemming"} \subseteq S, "SECRET_VOTE">>,
           <<"vragen" \in S \/ T \cap questions # {}, "QUESTIONS">>,
           <<"interpellatie" \in S, "INTERPELLATION">>,
           <<{"herziening", "grondwet"} \subseteq S, "REVISION_OF_CONSTITUTION">>,
           <<S \cap {"ontwerp", "voorstel"} # {}
               /\ ("ontwerp" \notin S \/ "voorstel" \in T), "BILL_PROPOSAL">>,
           <<S \cap {"ontwerp", "voorstel"} # {}
               /\ ("voorstel" \notin S \/ "ontwerp" \in T), "DRAFT_BILL">>,
           <<TRUE, "GENERAL">> >>

(* The type of the first rule of the list whose condition holds. *)
FirstMatch(rules) ==
    rules[CHOOSE i \in 1..Len(rules) :
             rules[i][1] /\ \A j \in 1..(i - 1) : ~rules[j][1]][2]

(* C21 as stated: the classifier's answer is the first matching rule of the *)
(* ordered list in which a title is one of questions only when it contains  *)
(* 'vragen'.                                                                *)
C21_FirstMatchVragenOnly ==
    "topic_type" \in DOMAIN ret
    => ret.topic_type = FirstMatch(OrderedRules(ret.title_NL, ret.section_NL, {"vragen"}))

(* C21: the classifier's answer is the first matching rule of the ordered   *)
(* list on the lowered texts, in which the questions rule holds when the    *)
(* section contains 'vragen' or the title contains 'vragen' or 'vraag'.     *)
C21_FirstMatchingRule ==
    "topic_type" \in DOMAIN ret
    => ret.topic_type
          = FirstMatch(OrderedRules(ret.title_NL, ret.section_NL, {"vragen", "vraag"}))

(* The classifier has answered QUESTIONS for an interpellation section      *)
(* whose title names a question in the singular.                            *)
C21_Witness ==
    /\ "topic_type" \in DOMAIN ret
    /\ ret.section_NL = "Interpellaties"
    /\ ret.title_NL = <<"Regeling van de werkzaamheden", "Vraag van m1">>
    /\ ret.topic_type = "QUESTIONS"

(* The agenda item __get_votes recovers for the marker it is at. *)
RecoveredItem(m) == extract_title_by_vote(m.soup.body, Head(m.tags), "FR").val

(* What C20 asks of one step of get_meeting_topics. *)
C20_Step ==
    /\ meeting.pc \in {"new", "NL", "FR"}
       => /\ meeting.tags = <<>>
          /\ meeting.name_votes = EmptyDict /\ meeting.electronic_votes = EmptyDict
          /\ \A k \in DOMAIN meeting'.topics : meeting'.topics[k].votes = <<>>
    /\ meeting'.pc = "FR" /\ meeting.pc # "FR"
       => meeting.pc = "NL" /\ meeting.titles = <<>>
    /\ meeting'.pc = "votes" /\ meeting.pc # "votes"
       => meeting.pc = "FR" /\ meeting.titles = <<>>
    /\ meeting.pc = "votes"
       => /\ DOMAIN meeting'.topics = DOMAIN meeting.topics
          /\ \A k \in DOMAIN meeting.topics :
                meeting'.topics[k].votes # meeting.topics[k].votes
                => /\ meeting.tags # <<>>
                   /\ k = RecoveredItem(meeting)
                   /\ \E v \in {Last(meeting'.topics[k].votes)} :
                         /\ v.vote_number = meeting.soup.body[Head(meeting.tags)].vote
                         /\ meeting'.topics[k].votes
                               = Append(meeting.topics[k].votes, v)
          /\ meeting.tags # <<>> /\ RecoveredItem(meeting) \notin DOMAIN meeting.topics
             => meeting'.topics = meeting.topics

(* C20: the Dutch pass and then the French pass are over before any vote is *)
(* located; locating votes never adds a topic; a vote is appended to the    *)
(* topic stored under the agenda item recovered for its marker, and when    *)
(* no topic is stored under that item no topic changes.                     *)
C20_TopicsBeforeVotes == [][C20_Step]_vars

(* get_meeting_topics has returned with a vote attached to a topic that     *)
(* both passes gave a title.                                                *)
C20_Witness ==
    /\ meeting.pc = "done"
    /\ \E kj \in AttachedVotes :
          /\ meeting.topics[kj[1]].title_NL # NoLines
          /\ meeting.topics[kj[1]].title_FR # NoLines

-----------------------------------------------------------------------------
(* The table parsers on their own: GenericVote.from_table,                  *)
(* LanguageGroupVote.from_table, the choice __get_votes makes between them  *)
(* on the rows of a table, and electronic_vote_from_table. ret holds the    *)
(* last call: its input and what it returned or raised.                     *)

(* The most rows a table of the sample has. *)
MaxRows == 7

(* Texts a tally cell is given: empty, blank, integers, one with white      *)
(* space around it, and one that is no integer.                             *)
TallyTexts == {"", " ", "88", " 88", "42", "3", "-"}

HeaderRow == <<"", "">>
TotalRow == <<"Totaal", "133">>
(* Rows after the three tally rows, bringing the table to 4 .. MaxRows rows *)
Tails ==
    {tail \in {<<>>, <<TotalRow>>, <<TotalRow, <<"", " ">>>>,
               <<TotalRow, <<CommentText, "">>>>, <<TotalRow, <<"", "<">>>>,
               <<TotalRow, <<"Quorum", "76">>>>} : TRUE}
    \cup {<<TotalRow>> \o [i \in 1..(MaxRows - 5) |-> <<"Quorum", "76">>]}

(* One-language tables: label in the first cell, tally in the second *)
TallyTable(yes, no, abstention, tail) ==
    [cells |-> <<HeaderRow, <<"Ja", yes>>, <<"Nee", no>>,
                 <<"Onthoudingen", abstention>>>> \o tail]
GenericTables ==
    {TallyTable(y, n, a, tail) : y \in TallyTexts, n \in {"", "42", "-"},
                                 a \in {"", "3", "-"}, tail \in Tails}

(* The table of three-cell rows: an empty first cell, the label, the tally *)
LabelledTable ==
    [cells |-> <<<<"", "", "">>, <<"", "Ja", "88">>, <<"", "Nee", "42">>,
                 <<"", "Onthoudingen", "3">>, <<"", "Totaal", "133">>>>]

(* Tables of fewer rows than a from_table reads *)
ShortTables ==
    {[cells |-> [i \in 1..n |-> HeaderRow]] : n \in 0..3}
    \cup {[cells |-> <<HeaderRow, <<"Ja">>, <<"Nee", "42">>,
                       <<"Onthoudingen", "3">>, TotalRow>>]}

(* Two-language tables: rows 2, 3 and 4 hold label, FR tally, label, NL     *)
(* tally; one cell of a well-formed table is replaced by each text.         *)
LanguageTable(fr, nl, last) ==
    [cells |-> <<<<"", "", "", "">>, <<"", "F", "", "N">>,
                 <<"Oui", fr[1], "Ja", nl[1]>>, <<"Non", fr[2], "Nee", nl[2]>>,
                 <<"Abstentions", fr[3], "Onthoudingen", nl[3]>>, last>>]
LanguageTexts == {"", "-", " afwezig", CommentText, "10"}
LanguageTables ==
    {LanguageTable([<<"42", "3", "1">> EXCEPT ![i] = text],
                   <<"88", "2", "0">>, last) :
        i \in 1..3, text \in LanguageTexts,
        last \in {<<"Total", "46", "Totaal", "90">>, <<"", "", "", "">>}}
    \cup {LanguageTable(<<"42", "3", "1">>,
                        [<<"88", "2", "0">> EXCEPT ![i] = text], last) :
        i \in 1..3, text \in LanguageTexts,
        last \in {<<"Total", "46", "Totaal", "90">>, <<"", "", "", "">>}}

SampleTables == GenericTables \cup {LabelledTable} \cup ShortTables \cup LanguageTables

(* Electronic blocks: the first table's cell, the siblings after the table  *)
(* and the cell of the second of them.                                      *)
Afters ==
    {<<>>, <<"p">>, <<"table">>, <<"p", "p">>, <<"p", "table">>,
     <<"table", "p">>, <<"table", "table">>, <<"p", "table", "p">>}
ElectronicBlocks ==
    {ElectronicBlock(1, "", cell, after, cell2) :
        cell \in {"", "80", " 88", "-"}, after \in Afters,
        cell2 \in {"", "10", "-"}}

GenericFromTable ==
    /\ \E t \in SampleTables :
         ret' = [call |-> "GenericVote.from_table", table |-> t,
                 result |-> GenericVote_from_table(1, t)]
    /\ UNCHANGED <<vote, reported, applied, activities>>
    /\ UNCHANGED notVote

LanguageGroupFromTable ==
    /\ \E t \in SampleTables :
         ret' = [call |-> "LanguageGroupVote.from_table", table |-> t,
                 result |-> LanguageGroupVote_from_table(1, t)]
    /\ UNCHANGED <<vote, reported, applied, activities>>
    /\ UNCHANGED notVote

VoteFromRows ==
    /\ \E t \in SampleTables :
         ret' = [call |-> "rows", table |-> t, shape |-> rows_shape(t),
                 result |-> vote_from_rows(1, t)]
    /\ UNCHANGED <<vote, reported, applied, activities>>
    /\ UNCHANGED notVote

ElectronicFromTable ==
    /\ \E block \in ElectronicBlocks :
         ret' = [call |-> "electronic_vote_from_table", block |-> block,
                 result |-> electronic_vote_from_table(1, block)]
    /\ UNCHANGED <<vote, reported, applied, activities>>
    /\ UNCHANGED notVote

InitTable ==
    /\ VoteIdle
    /\ fetch = FetchIdle
    /\ registry = RegistryIdle
    /\ pool = PoolIdle
    /\ meeting = MeetingIdle

NextTable ==
    \/ GenericFromTable
    \/ LanguageGroupFromTable
    \/ VoteFromRows
    \/ ElectronicFromTable

SpecTable == InitTable /\ [][NextTable]_vars

(* The last call was call. *)
Called(call) == "call" \in DOMAIN ret /\ ret.call = call

(* C16 as stated: GenericVote.from_table on the five-row table whose tally  *)
(* rows are an empty cell, the label and the tally gives                    *)
(* GenericVote(yes=88, no=42, abstention=3), which has passed.              *)
C16_LabelledTableParses ==
    Called("GenericVote.from_table") /\ ret.table = LabelledTable
    => /\ ret.result.exc = "none"
       /\ ret.result.vote = GenericVote(1, 88, 42, 3)
       /\ has_passed(ret.result.vote)

(* C16: GenericVote.from_table on a five-row table whose tally rows are the *)
(* label and the tally gives GenericVote(yes=88, no=42, abstention=3),      *)
(* which has passed; in general, when rows 1, 2 and 3 hold integers in      *)
(* their second cell, those are the yes, no and abstention counts.          *)
C16_CountsFromSecondCell ==
    Called("GenericVote.from_table")
    => LET t == ret.table
           tally(r) == t.cells[r][2]
       IN  /\ t = TallyTable("88", "42", "3", <<TotalRow>>)
              => /\ ret.result.vote = GenericVote(1, 88, 42, 3)
                 /\ has_passed(ret.result.vote)
           /\ /\ Len(t.cells) >= 4
              /\ \A r \in 2..4 : Len(t.cells[r]) >= 2 /\ IsIntText(clean_string(tally(r)))
              => /\ ret.result.exc = "none"
                 /\ ret.result.vote =
                        GenericVote(1, int(clean_string(tally(2))),
                                    int(clean_string(tally(3))),
                                    int(clean_string(tally(4))))

C16_Witness ==
    /\ Called("GenericVote.from_table")
    /\ ret.table = TallyTable("88", "42", "3", <<TotalRow>>)
    /\ ret.result.vote.type = "general"
    /\ ret.result.vote.yes = 88

(* The last row of table t is blank or its text starts with '<'. *)
LastRowBlankOrComment(t) ==
    LET last == t.cells[Len(t.cells)]
        blank(i) == last[i] \in {"", " "}
    IN  \/ \A i \in 1..Len(last) : blank(i)
        \/ \E i \in 1..Len(last) :
              /\ last[i] \in {"<", CommentText}
              /\ \A j \in 1..(i - 1) : blank(j)

(* C17: a table of exactly 5 rows, or of 6 rows whose last row is blank or  *)
(* starts with '<', is parsed as a GenericVote; a table of exactly 6 rows   *)
(* with a substantive last row is parsed as a LanguageGroupVote; a table of *)
(* any other number of rows gives no vote.                                  *)
C17_ShapeByRowCount ==
    Called("rows")
    => LET t == ret.table
           n == Len(t.cells)
           v == ret.result.vote
       IN  /\ n = 5 \/ (n = 6 /\ LastRowBlankOrComment(t))
              => ret.shape = "generic" /\ v.type \in {"general", "none"}
           /\ n = 6 /\ ~LastRowBlankOrComment(t)
              => ret.shape = "language_group" /\ v.type \in {"language_group", "none"}
           /\ n \notin {5, 6}
              => ret.shape \notin {"generic", "language_group"} /\ v.type = "none"

C17_Witness ==
    /\ Called("rows")
    /\ Len(ret.table.cells) = 6
    /\ LastRowBlankOrComment(ret.table)
    /\ ret.result.vote.type = "general"

(* The tally cells a from_table reads, where the table has them. *)
GenericCells(t) == {<<r, 1>> : r \in {1, 2, 3}}
LanguageCells(t) == {<<r, c>> : r \in {2, 3, 4}, c \in {1, 3}}
SomeCellUnparseable(t, read) ==
    /\ \A rc \in read : HasCell(t, rc[1], rc[2])
    /\ \E rc \in read : ~IsIntText(clean_string(Cell(t, rc[1], rc[2])))

(* C18 as stated: when a tally cell read by GenericVote.from_table or by    *)
(* LanguageGroupVote.from_table is empty or holds no integer, the parser    *)
(* returns no vote and does not raise.                                      *)
C18_UnparseableCellGivesNoVote ==
    /\ Called("GenericVote.from_table")
       /\ SomeCellUnparseable(ret.table, GenericCells(ret.table))
       => ret.result = Made(NoVoteObject)
    /\ Called("LanguageGroupVote.from_table")
       /\ SomeCellUnparseable(ret.table, LanguageCells(ret.table))
       => ret.result = Made(NoVoteObject)

(* The sibling electronic_vote_from_table tests is a table. *)
SecondTableFollows(block) == Len(block.after) >= 2 /\ block.after[2] = "table"

(* C19 as stated: with an integer in the first table's cell,                *)
(* electronic_vote_from_table returns ElectronicGenericVote(yes, no) when a *)
(* second table with an integer count follows, and                          *)
(* ElectronicAdvisoryVote(yes) in every other case, also when nothing       *)
(* follows the first table.                                                 *)
C19_ElectronicVoteFromTable ==
    Called("electronic_vote_from_table") /\ IsIntText(clean_string(ret.block.cell))
    => LET block == ret.block
           yes == int(clean_string(block.cell))
       IN  /\ SecondTableFollows(block) /\ IsIntText(clean_string(block.cell2))
              => ret.result = Made(ElectronicGenericVote(1, yes,
                                       int(clean_string(block.cell2))))
           /\ ~SecondTableFollows(block)
              => ret.result = Made(ElectronicAdvisoryVote(1, yes))

-----------------------------------------------------------------------------
(* get_meeting_topics, called up to MaxCalls times, on documents of up to   *)
(* MaxParagraphs nodes: a section paragraph, an unnumbered and two numbered *)
(* Dutch title paragraphs, a French title paragraph and a vote table.       *)

MaxParagraphs == 5

SectionNL == Paragraph("Titre1NL", NoNum, "Wetsontwerpen en voorstellen", 0)
UnnumberedNL == Paragraph("Titre2NL", NoNum, "Vraag van m1", 0)

SegmentNodes == {SectionNL, UnnumberedNL, NL1, NL2, FR1, TableG}

SegmentDocs ==
    {[body |-> b, s3 |-> <<>>] : b \in BoundedSeq(SegmentNodes, MaxParagraphs)}

InitSegment ==
    /\ VoteIdle
    /\ fetch = FetchIdle
    /\ registry = RegistryIdle
    /\ pool = PoolIdle
    /\ \E soup \in SegmentDocs : meeting = Meeting(soup)

NextSegment ==
    \/ StartGetMeetingTopics
    \/ ParseTopic
    \/ StartFrenchPass
    \/ GetNameAndElectronicVotes
    \/ ProcessVoteTag
    \/ ReturnTopics
    \/ GetMeetingTopicsAgain

SpecSegment == InitSegment /\ [][NextSegment]_vars

(* The pass is in a language pass, or an exception ended it. *)
InPass == meeting.pc \in Language \cup {"raised"}

(* The runs of the pass so far for which no numbered line was found. *)
UnnumberedRuns ==
    SelectSeq(meeting.runs, LAMBDA run : ~Numbered(meeting.soup.body[run.item]))

PassTitle(item_id) ==
    IF meeting.pc = "NL" THEN meeting.topics[item_id].title_NL
    ELSE meeting.topics[item_id].title_FR

(* The texts of the paragraphs from to upto of the body, in document order. *)
LinesOf(from, upto) == [i \in 1..(upto - from + 1) |-> meeting.soup.body[from + i - 1].txt]

(* C23 as stated: the run a pass has just stored, numbered or not, has as   *)
(* title every line of the run in document order, from the line the merge   *)
(* ended at to the last paragraph of the run; all of them carry the title   *)
(* class, the merge of an unnumbered run ended at a paragraph whose         *)
(* preceding sibling lacks the class, and the buffer is empty again.        *)
C23_TitleKeepsEveryLine ==
    meeting.pc \in Language /\ meeting.runs # <<>>
    => LET run == Last(meeting.runs)
           body == meeting.soup.body
           cls == language_mapping(meeting.pc)[2]
       IN  /\ PassTitle(run.item_id) = LinesOf(run.item, run.first)
           /\ \A i \in run.item..run.first : body[i].cls = cls
           /\ ~Numbered(body[run.item]) => body[run.item - 1].cls # cls
           /\ meeting.current_title = <<"">>

(* The first paragraph of the body is an unnumbered Dutch title line with   *)
(* text: the run the Dutch pass merges last has no numbered line and its    *)
(* first paragraph has no preceding sibling.                                *)
RunWithoutAnchor ==
    LET body == meeting.soup.body
    IN  /\ body # <<>>
        /\ body[1].tag = "p" /\ body[1].cls = language_mapping("NL")[2]
        /\ ~Numbered(body[1]) /\ ~EmptyOrComment(body[1])

(* C24 as stated: when the walk of a pass comes to the end of the titles    *)
(* while it merges a run without a numbered line, the pass does not raise,  *)
(* drops the buffer of that run and goes on with the topics stored so far.  *)
C24_UnanchoredRunDiscarded ==
    RunWithoutAnchor /\ meeting.pc # "new" /\ meeting.titles = <<>>
    => /\ meeting.pc # "raised"
       /\ meeting.current_title = <<"">>

-----------------------------------------------------------------------------
(* Meeting.__get_votes: the name lists under the table of a 'Naamstemming'  *)
(* header. siblings are the nodes from that table on, in document order,    *)
(* each with its tag name and its text; a node is named by its index,       *)
(* NoNode is None. The header is the only one of the document, and the      *)
(* paragraphs inside the tables are left out: the documents end with a      *)
(* paragraph.                                                               *)

NoNode == 0

Sibling(name, text) == [name |-> name, text |-> text]

find_next_sibling(siblings, node) == IF node < Len(siblings) THEN node + 1 ELSE NoNode
find_previous_sibling(siblings, node) == node - 1

(* current_node.name == "table" or 'naamstemming' in its lowered text *)
StopsNameList(node) ==
    node.name = "table" \/ "naamstemming" \in Keywords(lower(node.text))

RECURSIVE NameListLoop(_, _, _)
(* The while loop of extract_name_list_from_under_table; name_list is kept  *)
(* as the items its split(',') gives. None.name raises AttributeError.      *)
NameListLoop(siblings, current_node, name_list) ==
    IF current_node = NoNode
    THEN [name_list |-> name_list, current_node |-> NoNode, exc |-> "AttributeError"]
    ELSE IF StopsNameList(siblings[current_node])
    THEN [name_list |-> name_list, current_node |-> current_node, exc |-> "none"]
    ELSE NameListLoop(siblings, find_next_sibling(siblings, current_node),
            IF siblings[current_node].text # ""
            THEN name_list \o split(clean_string(siblings[current_node].text))
            ELSE name_list)

(* extract_name_list_from_under_table(current_node) *)
extract_name_list_from_under_table(siblings, current_node) ==
    IF current_node = NoNode
    THEN [name_list |-> <<>>, current_node |-> NoNode, exc |-> "AttributeError"]
    ELSE LET loop == NameListLoop(siblings, current_node,
                        split(clean_string(siblings[current_node].text)))
         IN  [name_list |-> IF loop.exc = "none" THEN clean_list(loop.name_list)
                            ELSE <<>>,
              current_node |-> loop.current_node, exc |-> loop.exc]

RECURSIVE AbstentionLoop(_, _, _)
(* The while loop over the previous siblings that builds abstention *)
AbstentionLoop(siblings, current_node, abstention) ==
    IF current_node = NoNode
    THEN [name_list |-> abstention, current_node |-> NoNode, exc |-> "AttributeError"]
    ELSE IF StopsNameList(siblings[current_node])
    THEN [name_list |-> abstention, current_node |-> current_node, exc |-> "none"]
    ELSE AbstentionLoop(siblings, find_previous_sibling(siblings, current_node),
            IF siblings[current_node].text # ""
            THEN split(clean_string(siblings[current_node].text)) \o abstention
            ELSE abstention)

(* The abstention list of the last header: from the last paragraph back *)
abstention_list(siblings) ==
    LET next_vote == Len(siblings)
        loop == AbstentionLoop(siblings, find_previous_sibling(siblings, next_vote),
                               split(clean_string(siblings[next_vote].text)))
    IN  [name_list |-> IF loop.exc = "none" THEN clean_list(loop.name_list) ELSE <<>>,
         current_node |-> loop.current_node, exc |-> loop.exc]

(* 'onthoudingen' or 'abstentions' in the lowered text of the node *)
MentionsAbstentions(node) ==
    Keywords(lower(node.text)) \cap {"onthoudingen", "abstentions"} # {}

(* The body of the first for loop of get_name_and_electronic_votes after    *)
(* is_vote_cancelled has come to the table: the three lists of the vote.    *)
name_lists(siblings, table) ==
    LET yes == extract_name_list_from_under_table(siblings,
                   find_next_sibling(siblings, table))
        no == extract_name_list_from_under_table(siblings,
                   find_next_sibling(siblings, yes.current_node))
        abstention == abstention_list(siblings)
        failed(exc) == [yes |-> <<>>, no |-> <<>>, abstention |-> <<>>,
                        stop |-> NoNode, exc |-> exc]
    IN  IF yes.exc # "none" THEN failed(yes.exc)
        ELSE IF no.exc # "none" THEN failed(no.exc)
        ELSE IF ~MentionsAbstentions(siblings[no.current_node])
        THEN [yes |-> yes.name_list, no |-> no.name_list, abstention |-> <<>>,
              stop |-> no.current_node, exc |-> "none"]
        ELSE IF abstention.exc # "none" THEN failed(abstention.exc)
        ELSE [yes |-> yes.name_list, no |-> no.name_list,
              abstention |-> abstention.name_list, stop |-> no.current_node,
              exc |-> "none"]

(* The most nodes from the table on. *)
MaxSiblings == 6

VoteTable == Sibling("table", "Ja")
SiblingNodes ==
    {Sibling("table", "Nee"), Sibling("table", "Onthoudingen"), Sibling("p", ""),
     Sibling("p", "m1, m2"), Sibling("p", "m1, , m2"), Sibling("p", "m2, afwezig"),
     Sibling("p", "Naamstemming 2")}

SiblingSeqs ==
    {<<VoteTable>> \o rest : rest \in
        {r \in BoundedSeq(SiblingNodes, MaxSiblings - 1) :
            r = <<>> \/ Last(r).name = "p"}}

(* The items a list handed to clean_list is made of *)
ListItems == {"", " ", "m1", " m2", " afwezig", CommentText}
MaxItems == 3

(* One call of extract_name_list_from_under_table on the sibling after the *)
(* table.                                                                   *)
ExtractNameList ==
    /\ "siblings" \in DOMAIN ret /\ "call" \notin DOMAIN ret
    /\ ret' = [call |-> "extract_name_list_from_under_table",
               siblings |-> ret.siblings,
               current_node |-> find_next_sibling(ret.siblings, 1),
               result |-> extract_name_list_from_under_table(ret.siblings,
                              find_next_sibling(ret.siblings, 1))]
    /\ UNCHANGED <<vote, reported, applied, activities>>
    /\ UNCHANGED notVote

(* The lists get_name_and_electronic_votes stores for the header. *)
NameLists ==
    /\ "siblings" \in DOMAIN ret /\ "call" \notin DOMAIN ret
    /\ ret' = [call |-> "name_lists", siblings |-> ret.siblings,
               result |-> name_lists(ret.siblings, 1)]
    /\ UNCHANGED <<vote, reported, applied, activities>>
    /\ UNCHANGED notVote

(* One call of clean_list. *)
CleanList ==
    /\ "list" \in DOMAIN ret /\ "call" \notin DOMAIN ret
    /\ ret' = [call |-> "clean_list", list |-> ret.list,
               result |-> clean_list(ret.list)]
    /\ UNCHANGED <<vote, reported, applied, activities>>
    /\ UNCHANGED notVote

InitNames ==
    /\ vote = NoVoteObject
    /\ reported = NoSubVote
    /\ applied = {}
    /\ activities = <<>>
    /\ fetch = FetchIdle
    /\ registry = RegistryIdle
    /\ pool = PoolIdle
    /\ meeting = MeetingIdle
    /\ \/ \E siblings \in SiblingSeqs : ret = [siblings |-> siblings]
       \/ \E list \in BoundedSeq(ListItems, MaxItems) : ret = [list |-> list]

NextNames ==
    \/ ExtractNameList
    \/ NameLists
    \/ CleanList

SpecNames == InitNames /\ [][NextNames]_vars

(* The first node from the node start on at which a name list stops,        *)
(* NoNode when there is none.                                               *)
FirstStop(siblings, start) ==
    LET stops == {i \in start..Len(siblings) : StopsNameList(siblings[i])}
    IN  IF start = NoNode \/ stops = {} THEN NoNode
        ELSE CHOOSE i \in stops : \A j \in stops : i <= j

(* C25 as stated: extract_name_list_from_under_table returns for every      *)
(* sequence of siblings, at the first sibling that is a table or mentions   *)
(* 'naamstemming', also when the siblings end before such a node; and the   *)
(* abstention list holds names only when the node the 'no' list stopped at  *)
(* mentions abstentions.                                                    *)
C25_NameListStops ==
    /\ Called("extract_name_list_from_under_table")
       => /\ ret.result.exc = "none"
          /\ ret.result.current_node = FirstStop(ret.siblings, ret.current_node)
    /\ Called("name_lists") /\ ret.result.exc = "none"
       => (ret.result.abstention # <<>>
              => MentionsAbstentions(ret.siblings[ret.result.stop]))

(* A name is blank or banned. *)
BlankOrBanned(name) == clean_string(name) = "" \/ name \in banned_set
NoBlankOrBanned(names) == \A i \in 1..Len(names) : ~BlankOrBanned(names[i])

(* C26 as stated: no list of names the extractor produces, and no list      *)
(* clean_list returns, holds a blank entry or an entry of the banned set.   *)
C26_NoBlankOrBannedName ==
    /\ Called("name_lists") /\ ret.result.exc = "none"
       => /\ NoBlankOrBanned(ret.result.yes)
          /\ NoBlankOrBanned(ret.result.no)
          /\ NoBlankOrBanned(ret.result.abstention)
    /\ Called("clean_list") => NoBlankOrBanned(ret.result)

-----------------------------------------------------------------------------
(* One MeetingTopic under any sequence of set_title, set_section and        *)
(* complete_type() calls; meeting holds the topic.                          *)

TopicTitlesNL ==
    {<<"Wetsontwerp (1234/5)">>, <<"Vraag (55001234C)">>,
     <<"Regeling van de werkzaamheden">>,
     <<"Wetsontwerp (1234/5)", "Wetsvoorstel (1234/5)">>}
TopicTitlesFR == {<<"Projet de loi (1234/5)">>, <<"Question de m1">>}
TopicSectionsNL == {"Wetsontwerpen", "Mondelinge vragen", "Naamstemmingen", "Algemeen"}
TopicSectionsFR == {"Projets et propositions", "Generale"}

SetTitle ==
    /\ meeting.pc = "topic"
    /\ \E language \in Language :
         \E title \in (IF language = "NL" THEN TopicTitlesNL ELSE TopicTitlesFR) :
            meeting' = [meeting EXCEPT !.topic = set_title(@, language, title)]
    /\ UNCHANGED <<vote, reported, applied, ret, activities, fetch, registry, pool>>

SetSection ==
    /\ meeting.pc = "topic"
    /\ \E language \in Language :
         \E section_name \in (IF language = "NL" THEN TopicSectionsNL
                              ELSE TopicSectionsFR) :
            meeting' = [meeting EXCEPT !.topic = set_section(@, language, section_name)]
    /\ UNCHANGED <<vote, reported, applied, ret, activities, fetch, registry, pool>>

(* complete_type() on a topic whose Dutch texts are set; on another topic   *)
(* it raises before it assigns anything.                                    *)
CompleteType ==
    /\ meeting.pc = "topic"
    /\ ~complete_type_raises(meeting.topic)
    /\ meeting' = [meeting EXCEPT !.topic = complete_type(@)]
    /\ UNCHANGED <<vote, reported, applied, ret, activities, fetch, registry, pool>>

InitTopic ==
    /\ VoteIdle
    /\ fetch = FetchIdle
    /\ registry = RegistryIdle
    /\ pool = PoolIdle
    /\ meeting = [pc |-> "topic", topic |-> MeetingTopic(1, 1)]

NextTopic ==
    \/ SetTitle
    \/ SetSection
    \/ CompleteType

SpecTopic == InitTopic /\ [][NextTopic]_vars

(* C27 as stated: after any sequence of set_title, set_section and          *)
(* complete_type calls the topic has related documents only if its type is  *)
(* LEGISLATION, BILL_PROPOSAL, DRAFT_BILL, NAME_VOTE or SECRET_VOTE, and    *)
(* related questions only if its type is QUESTIONS.                         *)
C27_RelatedEntitiesMatchType ==
    /\ meeting.topic.related_documents # <<>>
       => meeting.topic.topic_type \in
             {"LEGISLATION", "BILL_PROPOSAL", "DRAFT_BILL", "NAME_VOTE", "SECRET_VOTE"}
    /\ meeting.topic.related_questions # <<>>
       => meeting.topic.topic_type = "QUESTIONS"

(* get_meeting_topics returns the stored map without parsing when it is     *)
(* called without refresh on a meeting that has topics.                     *)
C28_LazyStep ==
    /\ meeting'.calls = meeting.calls + 1
    /\ ~meeting'.refresh
    /\ meeting.topics # EmptyDict
    => /\ meeting'.pc = "done"
       /\ meeting'.topics = meeting.topics
       /\ meeting'.returned = Append(meeting.returned, meeting.topics)

(* C28: a call without refresh on a meeting that has topics returns the     *)
(* stored map without parsing, and every map the calls on one document      *)
(* return, after a refresh too, equals the first: the same items, titles,   *)
(* sections, types, related entities and votes.                             *)
C28_LazyAndIdempotent ==
    /\ [](\A i \in 1..Len(meeting.returned) : meeting.returned[i] = meeting.returned[1])
    /\ [][C28_LazyStep]_vars

(* A call with refresh has returned, after an earlier call, a topic with a  *)
(* vote.                                                                    *)
C28_Witness ==
    /\ meeting.pc = "done"
    /\ meeting.refresh
    /\ Len(meeting.returned) = 2
    /\ \E k \in DOMAIN meeting.topics : Len(meeting.topics[k].votes) = 1

-----------------------------------------------------------------------------
(* C29: for a LanguageGroupVote whose three voter lists have been set, the  *)
(* yes, no and abstention counts that to_dict emits equal the lengths of    *)
(* the voters lists of the same dictionary and the vote's stored counts.    *)
C29_EmittedCountsMatchLists ==
    /\ vote.type = "language_group"
    /\ applied = {"yes", "no", "abstention"}
    /\ "to_dict" \in DOMAIN ret
    => /\ ret.to_dict.yes = Len(ret.to_dict.voters.yes)
       /\ ret.to_dict.no = Len(ret.to_dict.voters.no)
       /\ ret.to_dict.abstention = Len(ret.to_dict.voters.abstention)
       /\ ret.to_dict.yes = vote.yes
       /\ ret.to_dict.no = vote.no
       /\ ret.to_dict.abstention = vote.abstention

-----------------------------------------------------------------------------
(* C30: within one pass, the number given to a run without a numbered line  *)
(* is never the item number of a run the pass stored before it, so storing  *)
(* the run does not overwrite another topic.                                *)
C30_SynthesizedNumberIsFresh ==
    InPass
    => \A j \in 1..Len(meeting.runs) :
          ~Numbered(meeting.soup.body[meeting.runs[j].item])
          => \A i \in 1..(j - 1) : meeting.runs[i].item_id # meeting.runs[j].item_id

====
